---- MODULE Spec2Model ----
(***************************************************************************)
(* A model of the Script engine of the bitcoin library: the binary codec   *)
(* of Script (src/script.py, Script.parse / raw_serialize / serialize),    *)
(* the opcode library (src/op.py) and the evaluation loop                  *)
(* (Script.evaluate).                                                      *)
(*                                                                         *)
(* Byte strings are sequences of integers 0..255.  A command of a Script   *)
(* is a record [op, data]: an opcode n is [op |-> n, data |-> <<>>] (a     *)
(* Python int), a data element d is [op |-> -1, data |-> d] (a Python      *)
(* bytes object).                                                          *)
(***************************************************************************)
EXTENDS Integers, Sequences, FiniteSets, TLC

VARIABLES
    \* ---- codec scenario (Script.parse / Script.serialize) ----
    phase,      \* position of the codec scenario
    stream,     \* the bytes handed to Script.parse
    self_cmds,  \* the cmds of the Script object handed to serialize
    parse_out,  \* what Script.parse returned or raised
    ser_out,    \* what Script.serialize returned or raised
    \* ---- one call of Script.evaluate ----
    cmds,       \* the local copy of the command sequence
    stack,      \* the main stack
    altstack,   \* the alt stack
    witness,    \* the witness argument: [present, items]
    z,          \* the signature hash argument
    result,     \* "idle", "running", "True", "False" or "raise"
    last,       \* what the last operation(...) call returned ("push" for an element)
    \* ---- a transaction and the calls made on it (src/tx.py) ----
    tx,         \* the Tx object
    cache,      \* TxFetcher.cache: previous transaction id -> transaction
    tx_phase,   \* position of the transaction scenario
    outcome,    \* what each call made so far returned or raised, in order
    \* ---- the number codec scenario (encode_num / decode_num) ----
    num_phase,  \* position of the number codec scenario
    number,     \* the integer handed to encode_num
    encoded,    \* the bytes encode_num returned
    decoded,    \* the integer decode_num returned
    \* ---- TxFetcher.fetch and the objects it returned ----
    held,       \* the transaction objects fetch returned to the caller, in order
    asked,      \* the fetch call that waits for the server's response, or <<>>
    \* ---- Block.validate_merkle_root ----
    block,      \* the Block object
    \* ---- MerkleTree.populate_tree ----
    tree,       \* the MerkleTree object
    lists,      \* the flag_bits and hashes lists handed to populate_tree
    \* ---- SimpleNode and its peer ----
    node,       \* the SimpleNode object and the position of its call
    wire_in,    \* the bytes the peer sent that the node's stream has not read
    eof,        \* the peer closed the connection
    wire_out,   \* the byte strings the node handed to socket.sendall, in order
    net_log,    \* what the node read and sent, in order
    peer_sent   \* the byte strings the peer sent, in order

codecVars == <<phase, stream, self_cmds, parse_out, ser_out>>
evalVars == <<cmds, stack, altstack, witness, z, result, last>>
txVars == <<tx, cache, tx_phase, outcome>>
numVars == <<num_phase, number, encoded, decoded>>
fetchVars == <<held, asked>>
blockVars == <<block>>
treeVars == <<tree, lists>>
netVars == <<node, wire_in, eof, wire_out, net_log, peer_sent>>
moreVars == <<blockVars, treeVars, netVars>>
restVars == <<fetchVars, moreVars>>
vars == <<codecVars, evalVars, txVars, numVars, restVars>>

\* The variables of the fetcher while nothing has been fetched.
FetchIdle == held = <<>> /\ asked = <<>>

\* No block has been built.
BlockIdle == block = <<>>

\* No Merkle tree has been built.
TreeIdle == tree = <<>> /\ lists = <<>>

\* No node has been connected.
NetIdle ==
    /\ node = <<>>
    /\ wire_in = <<>>
    /\ eof = FALSE
    /\ wire_out = <<>>
    /\ net_log = <<>>
    /\ peer_sent = <<>>

\* The variables of the scenarios other than the fetcher's.
MoreIdle == BlockIdle /\ TreeIdle /\ NetIdle

\* The variables of the scenarios that are not running.
RestIdle == FetchIdle /\ MoreIdle

(***************************************************************************)
(* Bounds of the model.                                                    *)
(***************************************************************************)
MaxWire == 4        \* longest exhaustively enumerated byte stream
MaxScriptLen == 2   \* most commands of a Script handed to serialize
MaxEvalLen == 3     \* most commands of an exhaustively enumerated script

(***************************************************************************)
(* Generic helpers.                                                        *)
(***************************************************************************)
Min(a, b) == IF a < b THEN a ELSE b

\* s.read(n) on a stream whose unread part is s: the bytes read (a short
\* read when fewer than n are left) and the unread rest.
Take(s, n) == SubSeq(s, 1, Min(n, Len(s)))
Drop(s, n) == SubSeq(s, Min(n, Len(s)) + 1, Len(s))

RECURSIVE Pow256(_)
Pow256(k) == IF k = 0 THEN 1 ELSE 256 * Pow256(k - 1)

\* All sequences over S of length 0..n.
SeqsUpTo(S, n) == UNION {[1..k -> S] : k \in 0..n}

\* A deterministic byte string of n bytes (test payload).
Fill(n) == [i \in 1..n |-> 60 + ((i * 7 + n) % 16)]

\* F(e), with e evaluated once and F applied to its value.
With(e, F(_)) == CHOOSE r \in {F(v) : v \in {e}} : TRUE

Op(n) == [op |-> n, data |-> <<>>]
Push(d) == [op |-> -1, data |-> d]
IsInt(c) == c.op >= 0
IsBytes(c) == c.op = -1

(***************************************************************************)
(* src/helper.py: integer and varint codecs.                               *)
(***************************************************************************)
RECURSIVE little_endian_to_int(_)
little_endian_to_int(b) ==
    IF b = <<>> THEN 0
    ELSE b[1] + 256 * little_endian_to_int(Tail(b))

\* The bytes of num from the low end, for a num that fits in length bytes.
RECURSIVE LowBytes(_, _)
LowBytes(num, length) ==
    IF length = 0 THEN <<>>
    ELSE <<num % 256>> \o LowBytes(num \div 256, length - 1)

\* A byte string computed without an exception.
Ok(b) == [st |-> "ok", bytes |-> b]

\* num.to_bytes(length, 'little'): [st, bytes]; OverflowError when num is
\* negative or does not fit in length bytes.  (Every integer of the model is
\* below 256^4.)
int_to_little_endian(num, length) ==
    IF num < 0 \/ (length < 4 /\ num >= 256 ^ length)
    THEN [st |-> "OverflowError", bytes |-> <<>>]
    ELSE Ok(LowBytes(num, length))

\* The concatenation of the byte strings of rs, a sequence of [st, bytes]
\* results computed in this order; the first one that raised ends it.
RECURSIVE JoinFrom(_, _)
JoinFrom(rs, i) ==
    IF i > Len(rs) THEN [st |-> "ok", bytes |-> <<>>]
    ELSE IF rs[i].st # "ok" THEN [st |-> rs[i].st, bytes |-> <<>>]
    ELSE With(JoinFrom(rs, i + 1),
              LAMBDA t : IF t.st # "ok" THEN t
                         ELSE [st |-> "ok", bytes |-> rs[i].bytes \o t.bytes])
Join(rs) == With(rs, LAMBDA v : JoinFrom(v, 1))

\* read_varint: [st, val, rest]; st = "IndexError" when the stream is empty.
read_varint(s) ==
    IF s = <<>> THEN [st |-> "IndexError", val |-> 0, rest |-> s]
    ELSE LET i == s[1]
             r == Tail(s)
         IN  IF i = 253 THEN [st |-> "ok", val |-> little_endian_to_int(Take(r, 2)), rest |-> Drop(r, 2)]
             ELSE IF i = 254 THEN [st |-> "ok", val |-> little_endian_to_int(Take(r, 4)), rest |-> Drop(r, 4)]
             ELSE IF i = 255 THEN [st |-> "ok", val |-> little_endian_to_int(Take(r, 8)), rest |-> Drop(r, 8)]
             ELSE [st |-> "ok", val |-> i, rest |-> r]

\* (0x100000000 is written as a quotient: the model's integers are 32-bit.)
encode_varint(i) ==
    IF i < 253 THEN <<i>>
    ELSE IF i < 65536 THEN <<253>> \o int_to_little_endian(i, 2).bytes
    ELSE IF i \div 65536 < 65536 THEN <<254>> \o int_to_little_endian(i, 4).bytes
    ELSE <<255>> \o int_to_little_endian(i, 8).bytes

(***************************************************************************)
(* src/script.py: Script.parse.                                            *)
(***************************************************************************)
\* The while loop of Script.parse and the final length check.  s is the
\* unread part of the stream.
RECURSIVE ParseLoop(_, _, _, _)
ParseLoop(s, count, length, acc) ==
    IF count < length
    THEN IF s = <<>>
         THEN [st |-> "IndexError", cmds |-> acc]      \* current[0] on b''
         ELSE LET cur == s[1]
                  r == Tail(s)
              IN  IF cur >= 1 /\ cur <= 75
                  THEN ParseLoop(Drop(r, cur), count + 1 + cur, length,
                                 Append(acc, Push(Take(r, cur))))
                  ELSE IF cur = 76
                  THEN LET n == little_endian_to_int(Take(r, 1))
                           r2 == Drop(r, 1)
                       IN  ParseLoop(Drop(r2, n), count + 1 + n + 1, length,
                                     Append(acc, Push(Take(r2, n))))
                  ELSE IF cur = 77
                  THEN LET n == little_endian_to_int(Take(r, 2))
                           r2 == Drop(r, 2)
                       IN  ParseLoop(Drop(r2, n), count + 1 + n + 2, length,
                                     Append(acc, Push(Take(r2, n))))
                  ELSE ParseLoop(r, count + 1, length, Append(acc, Op(cur)))
    ELSE IF count # length
         THEN [st |-> "SyntaxError", cmds |-> acc]
         ELSE [st |-> "ok", cmds |-> acc]

ScriptParse(s) ==
    LET v == read_varint(s)
    IN  IF v.st # "ok" THEN [st |-> v.st, cmds |-> <<>>]
        ELSE ParseLoop(v.rest, 0, v.val, <<>>)

(***************************************************************************)
(* src/script.py: Script.raw_serialize and Script.serialize.               *)
(***************************************************************************)
\* SerializeCmd with the single length byte used up to 76 bytes (off by one).
SerializeCmd_DirectUpTo76(c) ==
    IF IsInt(c) THEN int_to_little_endian(c.op, 1)
    ELSE LET length == Len(c.data)
         IN  IF length <= 76 THEN Join(<<int_to_little_endian(length, 1), Ok(c.data)>>)
             ELSE IF length > 76 /\ length < 256
             THEN Join(<<int_to_little_endian(76, 1), int_to_little_endian(length, 1),
                         Ok(c.data)>>)
             ELSE IF length >= 256 /\ length <= 520
             THEN Join(<<int_to_little_endian(77, 1), int_to_little_endian(length, 2),
                         Ok(c.data)>>)
             ELSE [st |-> "ValueError", bytes |-> <<>>]

\* SerializeCmd with OP_PUSHDATA1 used from 75 bytes on (off by one).
SerializeCmd_PushData1From75(c) ==
    IF IsInt(c) THEN int_to_little_endian(c.op, 1)
    ELSE LET length == Len(c.data)
         IN  IF length < 75 THEN Join(<<int_to_little_endian(length, 1), Ok(c.data)>>)
             ELSE IF length >= 75 /\ length < 256
             THEN Join(<<int_to_little_endian(76, 1), int_to_little_endian(length, 1),
                         Ok(c.data)>>)
             ELSE IF length >= 256 /\ length <= 520
             THEN Join(<<int_to_little_endian(77, 1), int_to_little_endian(length, 2),
                         Ok(c.data)>>)
             ELSE [st |-> "ValueError", bytes |-> <<>>]

\* The bytes one command contributes: [st, bytes].
SerializeCmd(c) ==
    IF IsInt(c) THEN int_to_little_endian(c.op, 1)
    ELSE LET length == Len(c.data)
         IN  IF length <= 75 THEN Join(<<int_to_little_endian(length, 1), Ok(c.data)>>)
             ELSE IF length > 75 /\ length < 256
             THEN Join(<<int_to_little_endian(76, 1), int_to_little_endian(length, 1),
                         Ok(c.data)>>)
             ELSE IF length >= 256 /\ length <= 520
             THEN Join(<<int_to_little_endian(77, 1), int_to_little_endian(length, 2),
                         Ok(c.data)>>)
             ELSE [st |-> "ValueError", bytes |-> <<>>]

RECURSIVE raw_serialize(_)
raw_serialize(cs) ==
    IF cs = <<>> THEN [st |-> "ok", bytes |-> <<>>]
    ELSE With(SerializeCmd(cs[1]),
              LAMBDA one :
                IF one.st # "ok" THEN [st |-> one.st, bytes |-> <<>>]
                ELSE With(raw_serialize(Tail(cs)),
                          LAMBDA more :
                            IF more.st # "ok" THEN more
                            ELSE [st |-> "ok", bytes |-> one.bytes \o more.bytes]))

serialize(cs) ==
    With(raw_serialize(cs),
         LAMBDA raw : IF raw.st # "ok" THEN raw
                      ELSE [st |-> "ok", bytes |-> encode_varint(Len(raw.bytes)) \o raw.bytes])

(***************************************************************************)
(* src/helper.py: the hash functions.  hashlib's SHA-256 (FIPS 180-4) and  *)
(* RIPEMD-160 are computed as specified, on 32-bit words held as two       *)
(* 16-bit halves <<high, low>> (the model checker's integers are 32 bits   *)
(* wide and signed).                                                       *)
(***************************************************************************)
\* Bitwise and, exclusive or of two bytes, tabulated: And8[a + 1][b + 1].
RECURSIVE AndBits(_, _, _)
AndBits(a, b, k) ==
    IF k = 0 THEN 0
    ELSE (a % 2) * (b % 2) + 2 * AndBits(a \div 2, b \div 2, k - 1)
And8 == <<>> \o [a \in 1..256 |-> <<>> \o [b \in 1..256 |-> AndBits(a - 1, b - 1, 8)]]
Xor8 == <<>> \o [a \in 1..256 |-> <<>> \o [b \in 1..256 |-> (a - 1) + (b - 1) - 2 * And8[a][b]]]
Pow2 == <<1, 2, 4, 8, 16, 32, 64, 128, 256, 512, 1024, 2048, 4096, 8192, 16384, 32768, 65536>>

\* Bitwise operations on 16-bit halves.
And16(a, b) == And8[(a \div 256) + 1][(b \div 256) + 1] * 256 + And8[(a % 256) + 1][(b % 256) + 1]
Xor16(a, b) == Xor8[(a \div 256) + 1][(b \div 256) + 1] * 256 + Xor8[(a % 256) + 1][(b % 256) + 1]
Or16(a, b) == a + b - And16(a, b)
Not16(a) == 65535 - a
Xor3(a, b, c) ==
    Xor8[Xor8[(a \div 256) + 1][(b \div 256) + 1] + 1][(c \div 256) + 1] * 256
      + Xor8[Xor8[(a % 256) + 1][(b % 256) + 1] + 1][(c % 256) + 1]
\* One half of a word rotated right by n < 16 bits, d = 2^n and m = 2^(16-n):
\* the half p shifted right, the low n bits of the other half q above it.
\* Rot(high, low, d, m) is the high half of the rotated word and
\* Rot(low, high, d, m) its low half; a rotation by 16 + n exchanges the two.
Rot(p, q, d, m) == (p \div d) + (q % d) * m
\* The word of the two sums hi and lo of 16-bit halves, modulo 2^32.
Word(hi, lo) == <<(hi + (lo \div 65536)) % 65536, lo % 65536>>

Sha256K ==
    <<<<17034, 12184>>, <<28983, 17553>>, <<46528, 64463>>, <<59829, 56229>>,
    <<14678, 49755>>, <<23025, 4593>>, <<37439, 33444>>, <<43804, 24277>>,
    <<55303, 43672>>, <<4739, 23297>>, <<9265, 34238>>, <<21772, 32195>>,
    <<29374, 23924>>, <<32990, 45566>>, <<39900, 1703>>, <<49563, 61812>>,
    <<58523, 27073>>, <<61374, 18310>>, <<4033, 40390>>, <<9228, 41420>>,
    <<11753, 11375>>, <<19060, 33962>>, <<23728, 43484>>, <<30457, 35034>>,
    <<38974, 20818>>, <<43057, 50797>>, <<45059, 10184>>, <<48985, 32711>>,
    <<50912, 3059>>, <<54695, 37191>>, <<1738, 25425>>, <<5161, 10599>>,
    <<10167, 2693>>, <<11803, 8504>>, <<19756, 28156>>, <<21304, 3347>>,
    <<25866, 29524>>, <<30314, 2747>>, <<33218, 51502>>, <<37490, 11397>>,
    <<41663, 59553>>, <<43034, 26187>>, <<49739, 35696>>, <<51052, 20899>>,
    <<53650, 59417>>, <<54937, 1572>>, <<62478, 13701>>, <<4202, 41072>>,
    <<6564, 49430>>, <<7735, 27656>>, <<10056, 30540>>, <<13488, 48309>>,
    <<14620, 3251>>, <<20184, 43594>>, <<23452, 51791>>, <<26670, 28659>>,
    <<29839, 33518>>, <<30885, 25455>>, <<33992, 30740>>, <<36039, 520>>,
    <<37054, 65530>>, <<42064, 27883>>, <<48889, 41975>>, <<50801, 30962>>>>
Sha256H0 ==
    <<<<27145, 58983>>, <<47975, 44677>>, <<15470, 62322>>, <<42319, 62778>>,
    <<20750, 21119>>, <<39685, 26764>>, <<8067, 55723>>, <<23520, 52505>>>>

\* The halves of sigma0, sigma1 (message schedule) and Sigma0, Sigma1
\* (rounds) of the word <<h, l>>.  sigma0 = rotr 7 ^ rotr 18 ^ shr 3,
\* sigma1 = rotr 17 ^ rotr 19 ^ shr 10, Sigma0 = rotr 2 ^ rotr 13 ^ rotr 22,
\* Sigma1 = rotr 6 ^ rotr 11 ^ rotr 25; the low half of a Sigma is its high
\* half with h and l exchanged.
SmallSigma0Hi(h, l) == Xor3(Rot(h, l, 128, 512), Rot(l, h, 4, 16384), h \div 8)
SmallSigma0Lo(h, l) == Xor3(Rot(l, h, 128, 512), Rot(h, l, 4, 16384), Rot(l, h, 8, 8192))
SmallSigma1Hi(h, l) == Xor3(Rot(l, h, 2, 32768), Rot(l, h, 8, 8192), h \div 1024)
SmallSigma1Lo(h, l) == Xor3(Rot(h, l, 2, 32768), Rot(h, l, 8, 8192), Rot(l, h, 1024, 64))
BigSigma0Half(h, l) == Xor3(Rot(h, l, 4, 16384), Rot(h, l, 8192, 8), Rot(l, h, 64, 1024))
BigSigma1Half(h, l) == Xor3(Rot(h, l, 64, 1024), Rot(h, l, 2048, 32), Rot(l, h, 512, 128))
\* Ch(e, f, g) = (e & f) ^ (~e & g) and Maj(a, b, c) = (a & b) ^ (a & c) ^ (b & c)
\* on halves; the terms added have no bit in common.
ChHalf(e, f, g) == And16(e, f) + And16(Not16(e), g)
MajHalf(a, b, c) == And16(a, b) + And16(c, Xor16(a, b))

\* The message schedule w extended by n more words.
RECURSIVE Sha256Schedule(_, _)
Sha256Schedule(w, n) ==
    IF n = 0 THEN w
    ELSE IF n = 1
    THEN With(<<SmallSigma1Hi(w[Len(w) - 1][1], w[Len(w) - 1][2]) + w[Len(w) - 6][1]
                  + SmallSigma0Hi(w[Len(w) - 14][1], w[Len(w) - 14][2]) + w[Len(w) - 15][1],
                SmallSigma1Lo(w[Len(w) - 1][1], w[Len(w) - 1][2]) + w[Len(w) - 6][2]
                  + SmallSigma0Lo(w[Len(w) - 14][1], w[Len(w) - 14][2]) + w[Len(w) - 15][2]>>,
              LAMBDA t : Append(w, Word(t[1], t[2])))
    ELSE With(Sha256Schedule(w, n \div 2), LAMBDA v : Sha256Schedule(v, n - (n \div 2)))

\* One round on the working variables s = <<a, b, c, d, e, f, g, h>> with
\* the round constant k and the schedule word w.
Sha256Round(s, k, w) ==
    With(<<<<s[8][1] + BigSigma1Half(s[5][1], s[5][2])
               + ChHalf(s[5][1], s[6][1], s[7][1]) + k[1] + w[1],
             s[8][2] + BigSigma1Half(s[5][2], s[5][1])
               + ChHalf(s[5][2], s[6][2], s[7][2]) + k[2] + w[2]>>,
           <<BigSigma0Half(s[1][1], s[1][2]) + MajHalf(s[1][1], s[2][1], s[3][1]),
             BigSigma0Half(s[1][2], s[1][1]) + MajHalf(s[1][2], s[2][2], s[3][2])>>>>,
         LAMBDA t : <<Word(t[1][1] + t[2][1], t[1][2] + t[2][2]), s[1], s[2], s[3],
                      Word(s[4][1] + t[1][1], s[4][2] + t[1][2]), s[5], s[6], s[7]>>)

\* Rounds lo..hi applied to the working variables s.
RECURSIVE Sha256Rounds(_, _, _, _)
Sha256Rounds(s, w, lo, hi) ==
    IF lo = hi THEN Sha256Round(s, Sha256K[lo], w[lo])
    ELSE With(Sha256Rounds(s, w, lo, (lo + hi) \div 2),
              LAMBDA n : Sha256Rounds(n, w, ((lo + hi) \div 2) + 1, hi))

\* The 16 big-endian words of the 64-byte block that starts at byte p of m.
Sha256Words(m, p) ==
    [i \in 1..16 |-> <<m[p + 4 * i - 4] * 256 + m[p + 4 * i - 3],
                       m[p + 4 * i - 2] * 256 + m[p + 4 * i - 1]>>]
\* The hash value h after the block that starts at byte p of m.
Sha256Compress(h, m, p) ==
    With(With(Sha256Words(m, p), LAMBDA w16 : Sha256Schedule(w16, 48)), LAMBDA w :
    With(Sha256Rounds(h, w, 1, 64), LAMBDA s :
         [i \in 1..8 |-> Word(h[i][1] + s[i][1], h[i][2] + s[i][2])]))
\* Blocks lo..hi of the padded message m folded into the hash value h.
RECURSIVE Sha256Blocks(_, _, _, _)
Sha256Blocks(h, m, lo, hi) ==
    IF lo = hi THEN Sha256Compress(h, m, 64 * lo - 63)
    ELSE With(Sha256Blocks(h, m, lo, (lo + hi) \div 2),
              LAMBDA n : Sha256Blocks(n, m, ((lo + hi) \div 2) + 1, hi))
\* The message, the byte 0x80, zero bytes up to 56 modulo 64 and the length
\* in bits as 8 bytes, big-endian.
Sha256Pad(b) ==
    b \o <<128>> \o [i \in 1..((55 - Len(b)) % 64) |-> 0]
      \o <<0, 0, 0, 0, (Len(b) \div 2097152) % 256, (Len(b) \div 8192) % 256,
           (Len(b) \div 32) % 256, (Len(b) * 8) % 256>>
\* hashlib.sha256(b).digest() as the algorithm computes it.
Sha256Digest(b) ==
    With(Sha256Pad(b), LAMBDA m :
    With(Sha256Blocks(Sha256H0, m, 1, Len(m) \div 64), LAMBDA h :
         [i \in 1..32 |-> LET half == h[(i + 3) \div 4][(((i - 1) % 4) \div 2) + 1]
                          IN  IF i % 2 = 1 THEN half \div 256 ELSE half % 256]))

\* RIPEMD-160: the initial hash value, per round of 16 steps the constant
\* added in the left and in the right line, and per step the index of the
\* message word and the left rotation in both lines.
RipemdH0 ==
    <<<<26437, 8961>>, <<61389, 43913>>, <<39098, 56574>>, <<4146, 21622>>,
      <<50130, 57840>>>>
RipemdKLeft ==
    <<<<0, 0>>, <<23170, 31129>>, <<28377, 60321>>, <<36635, 48348>>, <<43347, 64846>>>>
RipemdKRight ==
    <<<<20642, 35814>>, <<23629, 53540>>, <<28016, 16115>>, <<31341, 30441>>, <<0, 0>>>>
RipemdRLeft ==
    <<0, 1, 2, 3, 4, 5, 6, 7, 8, 9, 10, 11, 12, 13, 14, 15,
      7, 4, 13, 1, 10, 6, 15, 3, 12, 0, 9, 5, 2, 14, 11, 8,
      3, 10, 14, 4, 9, 15, 8, 1, 2, 7, 0, 6, 13, 11, 5, 12,
      1, 9, 11, 10, 0, 8, 12, 4, 13, 3, 7, 15, 14, 5, 6, 2,
      4, 0, 5, 9, 7, 12, 2, 10, 14, 1, 3, 8, 11, 6, 15, 13>>
RipemdRRight ==
    <<5, 14, 7, 0, 9, 2, 11, 4, 13, 6, 15, 8, 1, 10, 3, 12,
      6, 11, 3, 7, 0, 13, 5, 10, 14, 15, 8, 12, 4, 9, 1, 2,
      15, 5, 1, 3, 7, 14, 6, 9, 11, 8, 12, 2, 10, 0, 4, 13,
      8, 6, 4, 1, 3, 11, 15, 0, 5, 12, 2, 13, 9, 7, 10, 14,
      12, 15, 10, 4, 1, 5, 8, 7, 6, 2, 13, 14, 0, 3, 9, 11>>
RipemdSLeft ==
    <<11, 14, 15, 12, 5, 8, 7, 9, 11, 13, 14, 15, 6, 7, 9, 8,
      7, 6, 8, 13, 11, 9, 7, 15, 7, 12, 15, 9, 11, 7, 13, 12,
      11, 13, 6, 7, 14, 9, 13, 15, 14, 8, 13, 6, 5, 12, 7, 5,
      11, 12, 14, 15, 14, 15, 9, 8, 9, 14, 5, 6, 8, 6, 5, 12,
      9, 15, 5, 11, 6, 8, 13, 12, 5, 12, 13, 14, 11, 8, 5, 6>>
RipemdSRight ==
    <<8, 9, 9, 11, 13, 15, 15, 5, 7, 7, 8, 11, 14, 14, 12, 6,
      9, 13, 15, 7, 12, 8, 9, 11, 7, 7, 12, 7, 6, 15, 13, 11,
      9, 7, 15, 11, 8, 6, 6, 14, 12, 13, 5, 14, 13, 13, 7, 5,
      15, 5, 8, 11, 14, 14, 6, 14, 6, 9, 12, 9, 12, 5, 15, 8,
      8, 5, 12, 9, 12, 5, 14, 6, 8, 13, 6, 5, 15, 13, 11, 11>>
\* The boolean function of round n (1..5) of the left line, on halves:
\* x ^ y ^ w, (x & y) | (~x & w), (x | ~y) ^ w, (x & w) | (y & ~w),
\* x ^ (y | ~w).  The right line takes them in the opposite order.
RipemdF(n, x, y, w) ==
    CASE n = 1 -> Xor3(x, y, w)
      [] n = 2 -> And16(x, y) + And16(Not16(x), w)
      [] n = 3 -> Xor16(Or16(x, Not16(y)), w)
      [] n = 4 -> And16(x, w) + And16(y, Not16(w))
      [] n = 5 -> Xor16(x, Or16(y, Not16(w)))
\* One step on the working variables v = <<A, B, C, D, E>>: the function f,
\* the message word x, the constant k, the left rotation by s bits.
RipemdStep(v, f, x, k, s) ==
    With(With(<<v[1][1] + RipemdF(f, v[2][1], v[3][1], v[4][1]) + x[1] + k[1],
                v[1][2] + RipemdF(f, v[2][2], v[3][2], v[4][2]) + x[2] + k[2]>>,
              LAMBDA r : Word(r[1], r[2])),
         LAMBDA t :
           <<v[5],
             Word(Rot(t[2], t[1], Pow2[17 - s], Pow2[s + 1]) + v[5][1],
                  Rot(t[1], t[2], Pow2[17 - s], Pow2[s + 1]) + v[5][2]),
             v[2],
             <<Rot(v[3][2], v[3][1], 64, 1024), Rot(v[3][1], v[3][2], 64, 1024)>>,
             v[4]>>)
\* Steps lo..hi of both lines on v = <<left, right>>, x the message words.
RECURSIVE RipemdSteps(_, _, _, _)
RipemdSteps(v, x, lo, hi) ==
    IF lo = hi
    THEN <<RipemdStep(v[1], ((lo - 1) \div 16) + 1, x[RipemdRLeft[lo] + 1],
                      RipemdKLeft[((lo - 1) \div 16) + 1], RipemdSLeft[lo]),
           RipemdStep(v[2], 5 - ((lo - 1) \div 16), x[RipemdRRight[lo] + 1],
                      RipemdKRight[((lo - 1) \div 16) + 1], RipemdSRight[lo])>>
    ELSE With(RipemdSteps(v, x, lo, (lo + hi) \div 2),
              LAMBDA n : RipemdSteps(n, x, ((lo + hi) \div 2) + 1, hi))
\* The 16 little-endian words of the 64-byte block that starts at byte p of m.
RipemdWords(m, p) ==
    [i \in 1..16 |-> <<m[p + 4 * i - 1] * 256 + m[p + 4 * i - 2],
                       m[p + 4 * i - 3] * 256 + m[p + 4 * i - 4]>>]
RipemdCompress(h, m, p) ==
    With(With(RipemdWords(m, p), LAMBDA x : RipemdSteps(<<h, h>>, x, 1, 80)),
         LAMBDA v :
           <<Word(h[2][1] + v[1][3][1] + v[2][4][1], h[2][2] + v[1][3][2] + v[2][4][2]),
             Word(h[3][1] + v[1][4][1] + v[2][5][1], h[3][2] + v[1][4][2] + v[2][5][2]),
             Word(h[4][1] + v[1][5][1] + v[2][1][1], h[4][2] + v[1][5][2] + v[2][1][2]),
             Word(h[5][1] + v[1][1][1] + v[2][2][1], h[5][2] + v[1][1][2] + v[2][2][2]),
             Word(h[1][1] + v[1][2][1] + v[2][3][1], h[1][2] + v[1][2][2] + v[2][3][2])>>)
RECURSIVE RipemdBlocks(_, _, _, _)
RipemdBlocks(h, m, lo, hi) ==
    IF lo = hi THEN RipemdCompress(h, m, 64 * lo - 63)
    ELSE With(RipemdBlocks(h, m, lo, (lo + hi) \div 2),
              LAMBDA n : RipemdBlocks(n, m, ((lo + hi) \div 2) + 1, hi))
\* As Sha256Pad, with the length in bits little-endian.
RipemdPad(b) ==
    b \o <<128>> \o [i \in 1..((55 - Len(b)) % 64) |-> 0]
      \o <<(Len(b) * 8) % 256, (Len(b) \div 32) % 256, (Len(b) \div 8192) % 256,
           (Len(b) \div 2097152) % 256, 0, 0, 0, 0>>
\* hashlib.new('ripemd160', b).digest() as the algorithm computes it.
Ripemd160Digest(b) ==
    With(RipemdPad(b), LAMBDA m :
    With(RipemdBlocks(RipemdH0, m, 1, Len(m) \div 64), LAMBDA h :
         [i \in 1..20 |-> LET half == h[(i + 3) \div 4][2 - (((i - 1) % 4) \div 2)]
                          IN  IF i % 2 = 1 THEN half % 256 ELSE half \div 256]))

\* Digests of byte strings the scenarios hash again and again, as
\* Sha256Digest and Ripemd160Digest compute them.
Sha256Known ==
    (<<>> :> <<227, 176, 196, 66, 152, 252, 28, 20, 154, 251, 244, 200, 153,
      111, 185, 36, 39, 174, 65, 228, 100, 155, 147, 76, 164, 149, 153, 27,
      120, 82, 184, 85>>)
    @@ (<<0>> :> <<110, 52, 11, 156, 255, 179, 122, 152, 156, 165, 68, 230, 187,
      120, 10, 44, 120, 144, 29, 63, 179, 55, 56, 118, 133, 17, 163, 6, 23,
      175, 160, 29>>)
    @@ (<<81>> :> <<74, 232, 21, 114, 240, 110, 27, 136, 253, 92, 237, 122, 26,
      0, 9, 69, 67, 46, 131, 225, 85, 30, 111, 114, 30, 233, 192, 11, 140,
      195, 50, 96>>)
    @@ (<<97>> :> <<202, 151, 129, 18, 202, 27, 189, 202, 250, 194, 49, 179,
      154, 35, 220, 77, 167, 134, 239, 248, 20, 124, 78, 114, 185, 128, 119,
      133, 175, 238, 72, 187>>)
    @@ (<<104>> :> <<170, 169, 64, 38, 100, 241, 164, 31, 64, 235, 188, 82, 201,
      153, 62, 182, 106, 235, 54, 102, 2, 149, 143, 223, 170, 40, 59, 113,
      230, 77, 177, 35>>)
    @@ (<<2, 1>> :> <<37, 223, 210, 156, 9, 97, 125, 204, 152, 82, 40, 28, 3,
      14, 91, 48, 55, 163, 56, 164, 113, 42, 66, 162, 28, 144, 127, 37, 156,
      100, 18, 160>>)
    @@ (<<2, 7>> :> <<206, 67, 238, 68, 3, 147, 132, 84, 151, 124, 209, 16, 54,
      62, 7, 113, 81, 108, 24, 126, 71, 175, 212, 72, 89, 38, 17, 61, 138,
      159, 15, 107>>)
    @@ (<<2, 9>> :> <<75, 40, 113, 218, 52, 103, 15, 222, 36, 134, 4, 224, 241,
      143, 211, 228, 247, 225, 230, 223, 221, 184, 88, 117, 206, 72, 19, 166,
      97, 41, 83, 187>>)
    @@ (<<81, 81>> :> <<47, 4, 163, 170, 5, 31, 31, 96, 214, 149, 246, 196, 76,
      12, 61, 56, 57, 115, 223, 212, 70, 172, 232, 150, 38, 100, 167, 107,
      177, 14, 49, 168>>)
    @@ (<<2, 7, 7>> :> <<68, 51, 155, 115, 218, 41, 168, 178, 138, 93, 158, 226,
      75, 33, 220, 183, 90, 4, 163, 219, 227, 94, 6, 117, 182, 100, 40, 117,
      178, 71, 160, 90>>)
    @@ (<<81, 104, 81>> :> <<195, 151, 59, 98, 236, 77, 158, 167, 83, 28, 68,
      61, 190, 239, 146, 62, 162, 101, 173, 185, 95, 236, 113, 93, 43, 40,
      180, 155, 209, 22, 12, 8>>)
    @@ (<<9, 8, 7, 6, 5, 4, 3, 2>> :> <<134, 154, 156, 47, 148, 169, 190, 215,
      167, 255, 114, 91, 231, 208, 51, 146, 141, 130, 125, 216, 191, 148, 15,
      223, 212, 73, 157, 107, 41, 0, 168, 248>>)
    @@ (<<254, 255, 0, 0, 254, 255, 0, 0>> :> <<104, 25, 220, 97, 80, 245, 1,
      22, 107, 15, 116, 169, 74, 117, 190, 3, 36, 13, 169, 167, 202, 49, 245,
      192, 25, 182, 176, 101, 203, 161, 150, 9>>)
    @@ (<<1, 0, 0, 0, 0, 0, 0, 0, 1, 81>> :> <<105, 49, 57, 76, 22, 167, 38, 85,
      142, 202, 72, 1, 6, 156, 65, 6, 112, 140, 90, 230, 93, 213, 254, 219,
      38, 5, 171, 88, 84, 88, 78, 228>>)
    @@ (<<5, 0, 0, 0, 0, 0, 0, 0, 1, 81>> :> <<96, 89, 203, 113, 120, 77, 239,
      107, 180, 5, 82, 163, 105, 57, 211, 222, 225, 86, 197, 50, 72, 158,
      183, 237, 151, 169, 158, 36, 3, 93, 201, 112>>)
    @@ (<<173, 93, 45, 95, 155, 159, 205, 167, 49, 189, 195, 242, 14, 12, 102,
      121, 135, 190, 188, 203>> :> <<144, 66, 57, 96, 139, 185, 40, 211, 71,
      201, 169, 48, 2, 203, 100, 210, 12, 211, 241, 245, 55, 112, 71, 240,
      90, 58, 92, 179, 156, 139, 160, 3>>)
    @@ (<<0, 20, 173, 93, 45, 95, 155, 159, 205, 167, 49, 189, 195, 242, 14, 12,
      102, 121, 135, 190, 188, 203>> :> <<23, 168, 180, 137, 215, 181, 91,
      18, 156, 241, 204, 234, 191, 135, 190, 133, 37, 220, 71, 175, 254, 4,
      113, 146, 76, 33, 183, 63, 228, 105, 189, 99>>)
    @@ (<<1, 145, 204, 208, 246, 90, 239, 120, 32, 204, 6, 120, 226, 75, 197,
      123, 2, 48, 74, 48, 119, 26, 38, 124, 155, 244, 247, 69, 70, 185, 89,
      223>> :> <<30, 117, 204, 248, 246, 64, 143, 99, 29, 83, 124, 112, 17,
      90, 13, 67, 100, 237, 81, 175, 248, 224, 176, 141, 168, 97, 219, 105,
      110, 36, 98, 46>>)
    @@ (<<18, 187, 29, 107, 209, 157, 12, 87, 90, 5, 32, 75, 7, 82, 216, 12,
      212, 88, 22, 100, 0, 189, 201, 2, 12, 51, 153, 69, 193, 238, 58, 236>>
      :> <<69, 123, 3, 240, 192, 78, 158, 121, 17, 177, 205, 165, 30, 38,
      154, 9, 196, 124, 13, 124, 157, 123, 247, 12, 91, 224, 55, 63, 227, 79,
      105, 229>>)
    @@ (<<47, 154, 92, 143, 56, 75, 237, 158, 113, 35, 72, 130, 42, 149, 230,
      184, 211, 98, 106, 6, 202, 197, 115, 136, 81, 177, 23, 176, 115, 172,
      176, 55>> :> <<78, 169, 15, 190, 125, 192, 47, 50, 201, 20, 10, 22,
      187, 200, 108, 156, 93, 109, 211, 13, 227, 225, 178, 187, 12, 189, 34,
      177, 54, 180, 201, 13>>)
    @@ (<<51, 101, 34, 29, 13, 97, 123, 77, 165, 72, 16, 232, 229, 95, 220, 243,
      39, 98, 190, 124, 4, 97, 17, 140, 146, 197, 149, 124, 90, 140, 231,
      213>> :> <<233, 181, 78, 126, 5, 47, 52, 104, 146, 218, 202, 178, 51,
      11, 111, 160, 244, 80, 243, 122, 75, 203, 179, 187, 116, 95, 148, 182,
      60, 192, 184, 214>>)
    @@ (<<51, 116, 192, 120, 76, 197, 92, 195, 34, 75, 14, 210, 140, 240, 117,
      51, 120, 7, 184, 184, 98, 113, 34, 235, 41, 1, 5, 190, 105, 40, 185,
      108>> :> <<41, 220, 230, 233, 29, 252, 162, 109, 36, 192, 229, 114,
      105, 29, 72, 27, 37, 83, 44, 249, 101, 78, 118, 208, 24, 4, 220, 238,
      240, 157, 199, 172>>)
    @@ (<<53, 173, 194, 67, 201, 243, 173, 246, 231, 52, 126, 247, 130, 101,
      104, 157, 145, 233, 54, 73, 135, 197, 69, 204, 5, 2, 23, 50, 187, 239,
      203, 76>> :> <<115, 2, 77, 82, 69, 242, 214, 185, 27, 80, 138, 237, 94,
      247, 95, 227, 168, 31, 201, 255, 128, 147, 125, 19, 254, 219, 155, 51,
      108, 28, 95, 8>>)
    @@ (<<62, 130, 153, 42, 174, 90, 169, 131, 22, 171, 90, 87, 156, 111, 44,
      12, 181, 109, 121, 121, 61, 1, 73, 238, 64, 115, 230, 53, 63, 2, 15,
      164>> :> <<202, 60, 227, 127, 30, 121, 113, 208, 144, 179, 224, 71,
      159, 176, 167, 9, 97, 228, 129, 230, 52, 192, 210, 34, 33, 16, 251, 58,
      97, 235, 91, 36>>)
    @@ (<<65, 92, 194, 83, 133, 137, 163, 105, 25, 213, 147, 140, 15, 123, 80,
      98, 96, 227, 90, 55, 145, 60, 216, 232, 66, 84, 77, 200, 169, 220, 17,
      207>> :> <<51, 162, 196, 16, 35, 99, 135, 191, 213, 203, 99, 143, 188,
      18, 5, 248, 216, 211, 163, 37, 80, 129, 240, 55, 248, 224, 191, 237,
      205, 198, 30, 2>>)
    @@ (<<68, 68, 214, 52, 101, 116, 162, 207, 113, 136, 180, 28, 161, 145, 62,
      50, 82, 225, 31, 113, 198, 212, 49, 102, 71, 5, 121, 39, 251, 5, 8,
      196>> :> <<64, 236, 226, 109, 154, 118, 0, 155, 125, 249, 145, 121,
      254, 202, 144, 116, 149, 226, 131, 255, 127, 64, 56, 231, 40, 14, 47,
      178, 208, 60, 39, 69>>)
    @@ (<<70, 169, 242, 63, 108, 85, 225, 162, 97, 63, 196, 254, 132, 125, 69,
      185, 185, 79, 226, 9, 190, 94, 67, 0, 208, 125, 125, 37, 142, 102, 236,
      117>> :> <<4, 189, 135, 164, 92, 132, 182, 118, 89, 27, 129, 105, 230,
      144, 255, 212, 144, 86, 58, 93, 98, 155, 198, 43, 40, 157, 223, 41, 15,
      83, 92, 145>>)
    @@ (<<71, 135, 141, 107, 50, 136, 82, 215, 36, 126, 29, 133, 3, 65, 146,
      189, 93, 38, 6, 164, 185, 23, 7, 77, 131, 171, 220, 38, 10, 240, 186,
      246>> :> <<247, 214, 168, 206, 242, 7, 206, 148, 3, 214, 100, 93, 180,
      221, 183, 224, 81, 56, 233, 156, 31, 125, 145, 148, 251, 250, 226, 159,
      206, 191, 113, 211>>)
    @@ (<<71, 167, 169, 161, 49, 126, 3, 217, 57, 68, 122, 239, 188, 99, 165,
      231, 184, 157, 127, 196, 62, 174, 237, 223, 150, 72, 105, 247, 29, 211,
      180, 212>> :> <<148, 129, 199, 31, 29, 162, 225, 109, 86, 49, 93, 69,
      70, 47, 220, 225, 107, 50, 137, 140, 13, 71, 29, 221, 42, 214, 218,
      185, 81, 179, 24, 91>>)
    @@ (<<77, 213, 74, 182, 1, 110, 174, 122, 240, 111, 213, 196, 114, 150, 146,
      118, 131, 133, 250, 96, 36, 108, 88, 211, 10, 113, 132, 67, 109, 160,
      209, 250>> :> <<63, 61, 127, 102, 12, 245, 142, 81, 192, 73, 190, 120,
      1, 79, 39, 27, 6, 59, 156, 195, 107, 162, 8, 100, 218, 125, 180, 130,
      129, 165, 114, 244>>)
    @@ (<<83, 118, 248, 53, 127, 148, 127, 151, 44, 128, 129, 95, 191, 139, 169,
      156, 160, 1, 22, 181, 188, 133, 174, 15, 177, 27, 174, 60, 141, 168,
      147, 109>> :> <<134, 181, 49, 58, 208, 112, 31, 73, 122, 134, 172, 5,
      171, 126, 31, 123, 72, 159, 127, 197, 40, 184, 100, 239, 73, 163, 252,
      235, 146, 21, 192, 41>>)
    @@ (<<96, 89, 203, 113, 120, 77, 239, 107, 180, 5, 82, 163, 105, 57, 211,
      222, 225, 86, 197, 50, 72, 158, 183, 237, 151, 169, 158, 36, 3, 93,
      201, 112>> :> <<18, 9, 183, 120, 174, 215, 181, 123, 59, 16, 213, 254,
      216, 167, 90, 48, 41, 118, 17, 239, 184, 165, 216, 153, 60, 208, 213,
      141, 167, 189, 73, 22>>)
    @@ (<<102, 3, 166, 70, 66, 174, 250, 191, 60, 127, 17, 235, 171, 117, 214,
      151, 190, 104, 128, 73, 191, 102, 208, 33, 176, 156, 244, 248, 30, 8,
      19, 97>> :> <<95, 1, 246, 156, 155, 132, 48, 80, 136, 23, 113, 205, 91,
      164, 14, 212, 202, 66, 69, 64, 30, 200, 240, 252, 3, 54, 47, 167, 34,
      13, 50, 56>>)
    @@ (<<104, 25, 220, 97, 80, 245, 1, 22, 107, 15, 116, 169, 74, 117, 190, 3,
      36, 13, 169, 167, 202, 49, 245, 192, 25, 182, 176, 101, 203, 161, 150,
      9>> :> <<127, 93, 128, 7, 88, 132, 52, 232, 46, 113, 132, 16, 183, 206,
      83, 19, 85, 128, 91, 74, 237, 168, 25, 114, 188, 202, 195, 86, 208, 72,
      187, 217>>)
    @@ (<<105, 49, 57, 76, 22, 167, 38, 85, 142, 202, 72, 1, 6, 156, 65, 6, 112,
      140, 90, 230, 93, 213, 254, 219, 38, 5, 171, 88, 84, 88, 78, 228>> :>
      <<221, 208, 241, 29, 122, 19, 16, 49, 69, 147, 148, 216, 162, 76, 123,
      245, 190, 24, 253, 95, 129, 200, 120, 34, 179, 219, 127, 149, 120, 145,
      187, 100>>)
    @@ (<<106, 155, 55, 247, 92, 241, 231, 31, 209, 231, 67, 115, 19, 230, 149,
      107, 46, 165, 54, 200, 69, 97, 238, 110, 88, 174, 241, 210, 198, 244,
      157, 65>> :> <<155, 136, 41, 122, 237, 209, 26, 253, 10, 155, 54, 239,
      170, 232, 99, 217, 81, 75, 118, 220, 6, 208, 108, 222, 198, 143, 116,
      241, 45, 253, 170, 167>>)
    @@ (<<110, 52, 11, 156, 255, 179, 122, 152, 156, 165, 68, 230, 187, 120, 10,
      44, 120, 144, 29, 63, 179, 55, 56, 118, 133, 17, 163, 6, 23, 175, 160,
      29>> :> <<20, 6, 224, 88, 129, 226, 153, 54, 119, 102, 211, 19, 226,
      108, 5, 86, 78, 201, 27, 247, 33, 211, 23, 38, 189, 110, 70, 230, 6,
      137, 83, 154>>)
    @@ (<<130, 23, 203, 11, 209, 108, 192, 104, 27, 180, 127, 57, 124, 94, 184,
      33, 125, 14, 234, 110, 116, 52, 199, 27, 255, 144, 199, 254, 46, 105,
      209, 169>> :> <<77, 65, 208, 233, 28, 111, 176, 198, 113, 182, 118,
      201, 176, 5, 153, 12, 95, 55, 74, 91, 187, 35, 178, 237, 48, 172, 195,
      211, 86, 157, 154, 160>>)
    @@ (<<134, 154, 156, 47, 148, 169, 190, 215, 167, 255, 114, 91, 231, 208,
      51, 146, 141, 130, 125, 216, 191, 148, 15, 223, 212, 73, 157, 107, 41,
      0, 168, 248>> :> <<200, 55, 218, 236, 0, 207, 165, 238, 126, 225, 213,
      252, 46, 94, 37, 166, 159, 144, 94, 79, 244, 163, 175, 240, 231, 109,
      107, 153, 152, 51, 46, 209>>)
    @@ (<<136, 57, 95, 164, 93, 16, 130, 229, 117, 172, 238, 58, 44, 21, 123,
      172, 119, 5, 197, 100, 113, 46, 247, 99, 151, 148, 17, 4, 102, 119,
      168, 93>> :> <<140, 70, 207, 48, 213, 122, 32, 186, 105, 130, 159, 161,
      30, 190, 78, 239, 26, 127, 197, 108, 96, 248, 40, 210, 97, 30, 124,
      159, 117, 81, 192, 137>>)
    @@ (<<136, 63, 55, 55, 41, 171, 99, 187, 160, 158, 112, 25, 110, 194, 206,
      133, 83, 57, 82, 16, 75, 29, 96, 131, 113, 195, 245, 86, 90, 254, 153,
      244>> :> <<117, 228, 68, 212, 93, 43, 232, 126, 122, 251, 105, 75, 100,
      17, 33, 137, 1, 58, 189, 24, 53, 95, 129, 4, 179, 245, 145, 227, 221,
      78, 102, 160>>)
    @@ (<<141, 158, 29, 160, 50, 93, 204, 156, 218, 128, 74, 168, 25, 4, 33,
      176, 62, 148, 238, 142, 195, 69, 64, 43, 142, 180, 79, 79, 254, 179,
      179, 116>> :> <<111, 2, 187, 211, 11, 217, 1, 178, 184, 117, 210, 12,
      9, 255, 70, 17, 224, 58, 222, 110, 151, 138, 118, 230, 62, 168, 213, 3,
      242, 20, 244, 174>>)
    @@ (<<148, 83, 119, 158, 0, 59, 85, 226, 113, 243, 136, 199, 18, 77, 133,
      102, 14, 198, 184, 134, 222, 99, 56, 255, 72, 186, 93, 48, 101, 110,
      180, 128>> :> <<158, 159, 136, 41, 163, 184, 12, 67, 204, 124, 129,
      131, 45, 122, 108, 63, 213, 204, 78, 199, 68, 135, 0, 43, 75, 120, 101,
      149, 234, 244, 146, 110>>)
    @@ (<<149, 24, 66, 246, 55, 44, 5, 21, 86, 36, 240, 149, 245, 234, 202, 42,
      14, 162, 199, 158, 82, 168, 143, 173, 81, 33, 145, 46, 145, 107, 22,
      65>> :> <<254, 207, 121, 175, 245, 186, 155, 64, 119, 71, 41, 68, 28,
      241, 200, 176, 119, 131, 255, 226, 246, 149, 68, 224, 248, 7, 74, 229,
      74, 101, 32, 197>>)
    @@ (<<152, 182, 228, 208, 250, 229, 215, 31, 249, 100, 81, 141, 131, 57,
      224, 30, 34, 59, 30, 181, 87, 23, 217, 210, 251, 55, 237, 167, 41, 117,
      119, 193>> :> <<63, 238, 33, 81, 175, 195, 160, 108, 21, 79, 162, 194,
      194, 207, 15, 154, 124, 29, 119, 220, 135, 177, 165, 175, 114, 119, 26,
      57, 100, 200, 118, 25>>)
    @@ (<<154, 212, 132, 186, 143, 13, 120, 118, 220, 186, 191, 174, 179, 39,
      139, 38, 157, 31, 189, 132, 62, 127, 67, 25, 238, 94, 183, 11, 169,
      130, 149, 126>> :> <<45, 193, 29, 96, 6, 72, 69, 34, 26, 135, 102, 231,
      184, 188, 57, 80, 202, 36, 127, 216, 136, 47, 98, 169, 1, 204, 237,
      114, 160, 62, 108, 220>>)
    @@ (<<158, 250, 210, 82, 96, 221, 38, 88, 186, 220, 117, 54, 224, 18, 35,
      133, 220, 172, 115, 135, 65, 249, 2, 126, 187, 225, 50, 221, 154, 161,
      232, 28>> :> <<240, 229, 0, 139, 17, 65, 38, 21, 43, 109, 15, 74, 192,
      23, 117, 87, 77, 172, 213, 151, 105, 217, 71, 246, 85, 62, 113, 143,
      123, 172, 69, 228>>)
    @@ (<<164, 71, 99, 190, 126, 237, 31, 156, 98, 121, 172, 65, 14, 231, 199,
      26, 175, 120, 185, 89, 106, 187, 39, 208, 102, 253, 46, 215, 243, 86,
      205, 252>> :> <<88, 96, 148, 104, 26, 59, 232, 126, 255, 193, 46, 56,
      182, 122, 143, 24, 160, 94, 85, 216, 66, 129, 245, 202, 203, 200, 154,
      8, 23, 164, 41, 96>>)
    @@ (<<167, 45, 195, 66, 156, 53, 136, 247, 232, 158, 15, 134, 80, 254, 36,
      255, 76, 156, 237, 218, 137, 199, 153, 69, 207, 184, 136, 59, 98, 64,
      228, 46>> :> <<57, 222, 162, 252, 124, 98, 177, 125, 51, 186, 193, 35,
      240, 54, 107, 74, 189, 220, 128, 206, 53, 191, 89, 58, 49, 23, 128,
      114, 176, 131, 187, 175>>)
    @@ (<<187, 24, 235, 213, 142, 136, 50, 122, 44, 162, 255, 114, 82, 28, 208,
      255, 223, 28, 166, 117, 63, 182, 234, 93, 221, 213, 176, 194, 151, 211,
      26, 245>> :> <<14, 68, 43, 146, 21, 76, 108, 149, 224, 82, 147, 18,
      157, 200, 166, 148, 225, 107, 128, 151, 193, 53, 49, 89, 93, 203, 21,
      57, 94, 201, 89, 148>>)
    @@ (<<204, 79, 229, 145, 26, 186, 94, 239, 176, 115, 11, 160, 59, 82, 73,
      21, 230, 0, 129, 64, 137, 24, 155, 22, 196, 217, 184, 195, 244, 54,
      219, 243>> :> <<145, 94, 0, 70, 151, 16, 80, 160, 202, 80, 9, 228, 11,
      74, 107, 145, 27, 78, 218, 225, 101, 42, 70, 212, 167, 219, 153, 37,
      178, 186, 165, 254>>)
    @@ (<<219, 182, 76, 148, 105, 140, 85, 46, 218, 70, 232, 99, 106, 101, 6,
      78, 223, 71, 41, 70, 140, 90, 203, 115, 133, 191, 26, 225, 54, 209,
      138, 193>> :> <<156, 146, 8, 139, 84, 182, 246, 197, 60, 177, 240, 198,
      75, 66, 247, 213, 220, 125, 197, 195, 107, 41, 151, 3, 191, 14, 210,
      65, 198, 13, 168, 203>>)
    @@ (<<227, 176, 196, 66, 152, 252, 28, 20, 154, 251, 244, 200, 153, 111,
      185, 36, 39, 174, 65, 228, 100, 155, 147, 76, 164, 149, 153, 27, 120,
      82, 184, 85>> :> <<93, 246, 224, 226, 118, 19, 89, 211, 10, 130, 117,
      5, 142, 41, 159, 204, 3, 129, 83, 69, 69, 245, 92, 244, 62, 65, 152,
      63, 93, 76, 148, 86>>)
    @@ (<<230, 57, 26, 36, 158, 185, 7, 13, 218, 76, 198, 91, 33, 57, 12, 207,
      194, 79, 63, 78, 127, 113, 71, 130, 77, 17, 137, 5, 16, 143, 183, 191>>
      :> <<132, 233, 239, 247, 177, 4, 241, 69, 187, 183, 246, 150, 203, 196,
      254, 47, 5, 69, 88, 24, 7, 240, 59, 109, 67, 26, 53, 221, 10, 183, 46,
      22>>)
    @@ (<<234, 255, 23, 235, 214, 35, 244, 114, 13, 224, 65, 82, 230, 13, 207,
      172, 1, 189, 6, 50, 170, 172, 89, 98, 249, 115, 94, 35, 218, 203, 2,
      182>> :> <<240, 216, 70, 196, 167, 56, 208, 125, 152, 161, 63, 173, 19,
      39, 209, 5, 187, 153, 151, 37, 28, 205, 180, 74, 59, 13, 12, 227, 3,
      243, 127, 232>>)
    @@ (<<235, 89, 37, 55, 186, 211, 239, 157, 14, 21, 25, 71, 238, 212, 139,
      36, 203, 53, 59, 195, 33, 250, 215, 159, 39, 230, 104, 250, 120, 149,
      235, 119>> :> <<141, 28, 21, 215, 158, 90, 61, 63, 118, 59, 17, 119, 1,
      96, 219, 143, 246, 138, 139, 200, 130, 178, 40, 184, 77, 4, 153, 125,
      117, 153, 125, 15>>)
    @@ (<<245, 234, 150, 102, 4, 51, 122, 254, 251, 171, 188, 131, 18, 176, 99,
      192, 53, 228, 206, 156, 140, 110, 186, 244, 24, 209, 174, 4, 117, 75,
      22, 120>> :> <<220, 12, 152, 194, 225, 230, 191, 173, 168, 246, 92, 66,
      244, 151, 211, 190, 159, 94, 96, 68, 223, 166, 120, 123, 92, 169, 252,
      133, 170, 57, 217, 231>>)
    @@ (<<248, 209, 21, 174, 72, 207, 184, 91, 109, 253, 182, 130, 230, 134, 74,
      62, 24, 73, 187, 245, 216, 4, 187, 176, 94, 146, 234, 158, 12, 206,
      255, 142>> :> <<244, 68, 100, 53, 184, 120, 236, 59, 174, 76, 154, 117,
      38, 246, 148, 197, 73, 193, 6, 73, 60, 211, 46, 40, 49, 223, 190, 144,
      118, 83, 234, 30>>)
    @@ (<<255, 53, 247, 70, 228, 194, 29, 26, 140, 41, 184, 127, 214, 72, 194,
      62, 86, 232, 77, 17, 78, 244, 198, 18, 57, 6, 181, 47, 69, 96, 167,
      99>> :> <<127, 160, 45, 103, 79, 61, 241, 219, 42, 24, 172, 156, 130,
      171, 35, 125, 191, 122, 51, 50, 165, 224, 100, 196, 249, 94, 151, 214,
      149, 111, 137, 249>>)
    @@ (<<1, 0, 0, 0, 1, 32, 31, 30, 29, 28, 27, 26, 25, 24, 23, 22, 21, 20, 19,
      18, 17, 16, 15, 14, 13, 12, 11, 10, 9, 8, 7, 6, 5, 4, 3, 2, 1, 0, 0, 0,
      0, 0, 254, 255, 0, 0, 1, 2, 0, 0, 0, 0, 0, 0, 0, 1, 81, 0, 0, 0, 0>> :>
      <<1, 145, 204, 208, 246, 90, 239, 120, 32, 204, 6, 120, 226, 75, 197,
      123, 2, 48, 74, 48, 119, 26, 38, 124, 155, 244, 247, 69, 70, 185, 89,
      223>>)
    @@ (<<1, 0, 0, 0, 1, 32, 31, 30, 29, 28, 27, 26, 25, 24, 23, 22, 21, 20, 19,
      18, 17, 16, 15, 14, 13, 12, 11, 10, 9, 8, 7, 6, 5, 4, 3, 2, 1, 1, 0, 0,
      0, 1, 81, 254, 255, 0, 0, 1, 1, 0, 0, 0, 0, 0, 0, 0, 1, 81, 0, 0, 0,
      0>> :> <<106, 155, 55, 247, 92, 241, 231, 31, 209, 231, 67, 115, 19,
      230, 149, 107, 46, 165, 54, 200, 69, 97, 238, 110, 88, 174, 241, 210,
      198, 244, 157, 65>>)
    @@ (<<2, 3, 4, 5, 6, 7, 8, 9, 10, 11, 12, 13, 14, 15, 16, 17, 18, 19, 20,
      21, 22, 23, 24, 25, 26, 27, 28, 29, 30, 31, 32, 33, 3, 4, 5, 6, 7, 8,
      9, 10, 11, 12, 13, 14, 15, 16, 17, 18, 19, 20, 21, 22, 23, 24, 25, 26,
      27, 28, 29, 30, 31, 32, 33, 34>> :> <<83, 118, 248, 53, 127, 148, 127,
      151, 44, 128, 129, 95, 191, 139, 169, 156, 160, 1, 22, 181, 188, 133,
      174, 15, 177, 27, 174, 60, 141, 168, 147, 109>>)
    @@ (<<2, 3, 4, 5, 6, 7, 8, 9, 10, 11, 12, 13, 14, 15, 16, 17, 18, 19, 20,
      21, 22, 23, 24, 25, 26, 27, 28, 29, 30, 31, 32, 33, 115, 2, 77, 82, 69,
      242, 214, 185, 27, 80, 138, 237, 94, 247, 95, 227, 168, 31, 201, 255,
      128, 147, 125, 19, 254, 219, 155, 51, 108, 28, 95, 8>> :> <<255, 53,
      247, 70, 228, 194, 29, 26, 140, 41, 184, 127, 214, 72, 194, 62, 86,
      232, 77, 17, 78, 244, 198, 18, 57, 6, 181, 47, 69, 96, 167, 99>>)
    @@ (<<2, 3, 4, 5, 6, 7, 8, 9, 10, 11, 12, 13, 14, 15, 16, 17, 18, 19, 20,
      21, 22, 23, 24, 25, 26, 27, 28, 29, 30, 31, 32, 33, 240, 229, 0, 139,
      17, 65, 38, 21, 43, 109, 15, 74, 192, 23, 117, 87, 77, 172, 213, 151,
      105, 217, 71, 246, 85, 62, 113, 143, 123, 172, 69, 228>> :> <<154, 212,
      132, 186, 143, 13, 120, 118, 220, 186, 191, 174, 179, 39, 139, 38, 157,
      31, 189, 132, 62, 127, 67, 25, 238, 94, 183, 11, 169, 130, 149, 126>>)
    @@ (<<3, 4, 5, 6, 7, 8, 9, 10, 11, 12, 13, 14, 15, 16, 17, 18, 19, 20, 21,
      22, 23, 24, 25, 26, 27, 28, 29, 30, 31, 32, 33, 34, 3, 4, 5, 6, 7, 8,
      9, 10, 11, 12, 13, 14, 15, 16, 17, 18, 19, 20, 21, 22, 23, 24, 25, 26,
      27, 28, 29, 30, 31, 32, 33, 34>> :> <<53, 173, 194, 67, 201, 243, 173,
      246, 231, 52, 126, 247, 130, 101, 104, 157, 145, 233, 54, 73, 135, 197,
      69, 204, 5, 2, 23, 50, 187, 239, 203, 76>>)
    @@ (<<3, 4, 5, 6, 7, 8, 9, 10, 11, 12, 13, 14, 15, 16, 17, 18, 19, 20, 21,
      22, 23, 24, 25, 26, 27, 28, 29, 30, 31, 32, 33, 34, 4, 5, 6, 7, 8, 9,
      10, 11, 12, 13, 14, 15, 16, 17, 18, 19, 20, 21, 22, 23, 24, 25, 26, 27,
      28, 29, 30, 31, 32, 33, 34, 35>> :> <<158, 250, 210, 82, 96, 221, 38,
      88, 186, 220, 117, 54, 224, 18, 35, 133, 220, 172, 115, 135, 65, 249,
      2, 126, 187, 225, 50, 221, 154, 161, 232, 28>>)
    @@ (<<4, 5, 6, 7, 8, 9, 10, 11, 12, 13, 14, 15, 16, 17, 18, 19, 20, 21, 22,
      23, 24, 25, 26, 27, 28, 29, 30, 31, 32, 33, 34, 35, 4, 5, 6, 7, 8, 9,
      10, 11, 12, 13, 14, 15, 16, 17, 18, 19, 20, 21, 22, 23, 24, 25, 26, 27,
      28, 29, 30, 31, 32, 33, 34, 35>> :> <<136, 57, 95, 164, 93, 16, 130,
      229, 117, 172, 238, 58, 44, 21, 123, 172, 119, 5, 197, 100, 113, 46,
      247, 99, 151, 148, 17, 4, 102, 119, 168, 93>>)
    @@ (<<4, 5, 6, 7, 8, 9, 10, 11, 12, 13, 14, 15, 16, 17, 18, 19, 20, 21, 22,
      23, 24, 25, 26, 27, 28, 29, 30, 31, 32, 33, 34, 35, 5, 6, 7, 8, 9, 10,
      11, 12, 13, 14, 15, 16, 17, 18, 19, 20, 21, 22, 23, 24, 25, 26, 27, 28,
      29, 30, 31, 32, 33, 34, 35, 36>> :> <<149, 24, 66, 246, 55, 44, 5, 21,
      86, 36, 240, 149, 245, 234, 202, 42, 14, 162, 199, 158, 82, 168, 143,
      173, 81, 33, 145, 46, 145, 107, 22, 65>>)
    @@ (<<33, 32, 31, 30, 29, 28, 27, 26, 25, 24, 23, 22, 21, 20, 19, 18, 17,
      16, 15, 14, 13, 12, 11, 10, 9, 8, 7, 6, 5, 4, 3, 2, 33, 32, 31, 30, 29,
      28, 27, 26, 25, 24, 23, 22, 21, 20, 19, 18, 17, 16, 15, 14, 13, 12, 11,
      10, 9, 8, 7, 6, 5, 4, 3, 2>> :> <<167, 45, 195, 66, 156, 53, 136, 247,
      232, 158, 15, 134, 80, 254, 36, 255, 76, 156, 237, 218, 137, 199, 153,
      69, 207, 184, 136, 59, 98, 64, 228, 46>>)
    @@ (<<34, 33, 32, 31, 30, 29, 28, 27, 26, 25, 24, 23, 22, 21, 20, 19, 18,
      17, 16, 15, 14, 13, 12, 11, 10, 9, 8, 7, 6, 5, 4, 3, 33, 32, 31, 30,
      29, 28, 27, 26, 25, 24, 23, 22, 21, 20, 19, 18, 17, 16, 15, 14, 13, 12,
      11, 10, 9, 8, 7, 6, 5, 4, 3, 2>> :> <<29, 32, 115, 173, 73, 52, 105,
      56, 155, 224, 107, 219, 216, 36, 165, 52, 100, 26, 83, 210, 133, 95,
      76, 42, 172, 45, 64, 196, 109, 193, 184, 247>>)
    @@ (<<34, 33, 32, 31, 30, 29, 28, 27, 26, 25, 24, 23, 22, 21, 20, 19, 18,
      17, 16, 15, 14, 13, 12, 11, 10, 9, 8, 7, 6, 5, 4, 3, 34, 33, 32, 31,
      30, 29, 28, 27, 26, 25, 24, 23, 22, 21, 20, 19, 18, 17, 16, 15, 14, 13,
      12, 11, 10, 9, 8, 7, 6, 5, 4, 3>> :> <<102, 3, 166, 70, 66, 174, 250,
      191, 60, 127, 17, 235, 171, 117, 214, 151, 190, 104, 128, 73, 191, 102,
      208, 33, 176, 156, 244, 248, 30, 8, 19, 97>>)
    @@ (<<34, 33, 32, 31, 30, 29, 28, 27, 26, 25, 24, 23, 22, 21, 20, 19, 18,
      17, 16, 15, 14, 13, 12, 11, 10, 9, 8, 7, 6, 5, 4, 3, 35, 34, 33, 32,
      31, 30, 29, 28, 27, 26, 25, 24, 23, 22, 21, 20, 19, 18, 17, 16, 15, 14,
      13, 12, 11, 10, 9, 8, 7, 6, 5, 4>> :> <<119, 137, 65, 222, 251, 187,
      103, 50, 152, 71, 172, 88, 156, 195, 70, 135, 180, 222, 156, 81, 74,
      133, 199, 82, 88, 190, 139, 95, 228, 165, 82, 239>>)
    @@ (<<35, 34, 33, 32, 31, 30, 29, 28, 27, 26, 25, 24, 23, 22, 21, 20, 19,
      18, 17, 16, 15, 14, 13, 12, 11, 10, 9, 8, 7, 6, 5, 4, 33, 32, 31, 30,
      29, 28, 27, 26, 25, 24, 23, 22, 21, 20, 19, 18, 17, 16, 15, 14, 13, 12,
      11, 10, 9, 8, 7, 6, 5, 4, 3, 2>> :> <<137, 100, 2, 17, 196, 235, 26,
      46, 195, 45, 96, 255, 0, 14, 210, 164, 100, 136, 88, 129, 170, 252,
      194, 187, 81, 160, 141, 40, 182, 200, 22, 241>>)
    @@ (<<35, 34, 33, 32, 31, 30, 29, 28, 27, 26, 25, 24, 23, 22, 21, 20, 19,
      18, 17, 16, 15, 14, 13, 12, 11, 10, 9, 8, 7, 6, 5, 4, 34, 33, 32, 31,
      30, 29, 28, 27, 26, 25, 24, 23, 22, 21, 20, 19, 18, 17, 16, 15, 14, 13,
      12, 11, 10, 9, 8, 7, 6, 5, 4, 3>> :> <<86, 179, 112, 212, 154, 160, 19,
      252, 50, 101, 73, 245, 133, 126, 14, 213, 200, 13, 73, 180, 228, 157,
      94, 209, 222, 204, 78, 215, 88, 99, 111, 194>>)
    @@ (<<35, 34, 33, 32, 31, 30, 29, 28, 27, 26, 25, 24, 23, 22, 21, 20, 19,
      18, 17, 16, 15, 14, 13, 12, 11, 10, 9, 8, 7, 6, 5, 4, 35, 34, 33, 32,
      31, 30, 29, 28, 27, 26, 25, 24, 23, 22, 21, 20, 19, 18, 17, 16, 15, 14,
      13, 12, 11, 10, 9, 8, 7, 6, 5, 4>> :> <<230, 57, 26, 36, 158, 185, 7,
      13, 218, 76, 198, 91, 33, 57, 12, 207, 194, 79, 63, 78, 127, 113, 71,
      130, 77, 17, 137, 5, 16, 143, 183, 191>>)
    @@ (<<134, 181, 49, 58, 208, 112, 31, 73, 122, 134, 172, 5, 171, 126, 31,
      123, 72, 159, 127, 197, 40, 184, 100, 239, 73, 163, 252, 235, 146, 21,
      192, 41, 4, 5, 6, 7, 8, 9, 10, 11, 12, 13, 14, 15, 16, 17, 18, 19, 20,
      21, 22, 23, 24, 25, 26, 27, 28, 29, 30, 31, 32, 33, 34, 35>> :> <<245,
      234, 150, 102, 4, 51, 122, 254, 251, 171, 188, 131, 18, 176, 99, 192,
      53, 228, 206, 156, 140, 110, 186, 244, 24, 209, 174, 4, 117, 75, 22,
      120>>)
    @@ (<<134, 181, 49, 58, 208, 112, 31, 73, 122, 134, 172, 5, 171, 126, 31,
      123, 72, 159, 127, 197, 40, 184, 100, 239, 73, 163, 252, 235, 146, 21,
      192, 41, 140, 70, 207, 48, 213, 122, 32, 186, 105, 130, 159, 161, 30,
      190, 78, 239, 26, 127, 197, 108, 96, 248, 40, 210, 97, 30, 124, 159,
      117, 81, 192, 137>> :> <<18, 187, 29, 107, 209, 157, 12, 87, 90, 5, 32,
      75, 7, 82, 216, 12, 212, 88, 22, 100, 0, 189, 201, 2, 12, 51, 153, 69,
      193, 238, 58, 236>>)
    @@ (<<134, 181, 49, 58, 208, 112, 31, 73, 122, 134, 172, 5, 171, 126, 31,
      123, 72, 159, 127, 197, 40, 184, 100, 239, 73, 163, 252, 235, 146, 21,
      192, 41, 254, 207, 121, 175, 245, 186, 155, 64, 119, 71, 41, 68, 28,
      241, 200, 176, 119, 131, 255, 226, 246, 149, 68, 224, 248, 7, 74, 229,
      74, 101, 32, 197>> :> <<136, 63, 55, 55, 41, 171, 99, 187, 160, 158,
      112, 25, 110, 194, 206, 133, 83, 57, 82, 16, 75, 29, 96, 131, 113, 195,
      245, 86, 90, 254, 153, 244>>)
    @@ (<<2, 0, 0, 0, 1, 32, 31, 30, 29, 28, 27, 26, 25, 24, 23, 22, 21, 20, 19,
      18, 17, 16, 15, 14, 13, 12, 11, 10, 9, 8, 7, 6, 5, 4, 3, 2, 1, 2, 0, 0,
      0, 0, 254, 255, 0, 0, 1, 1, 0, 0, 0, 0, 0, 0, 0, 22, 0, 20, 173, 93,
      45, 95, 155, 159, 205, 167, 49, 189, 195, 242, 14, 12, 102, 121, 135,
      190, 188, 203, 0, 0, 0, 0>> :> <<71, 135, 141, 107, 50, 136, 82, 215,
      36, 126, 29, 133, 3, 65, 146, 189, 93, 38, 6, 164, 185, 23, 7, 77, 131,
      171, 220, 38, 10, 240, 186, 246>>)
    @@ (<<127, 17, 1, 0, 1, 0, 0, 0, 0, 0, 0, 0, 0, 241, 83, 101, 0, 0, 0, 0, 0,
      0, 0, 0, 0, 0, 0, 0, 0, 0, 0, 0, 0, 0, 0, 0, 0, 0, 255, 255, 0, 0, 0,
      0, 141, 32, 0, 0, 0, 0, 0, 0, 0, 0, 0, 0, 0, 0, 0, 0, 0, 0, 0, 0, 255,
      255, 0, 0, 0, 0, 141, 32, 8, 7, 6, 5, 4, 3, 2, 1, 0, 5, 0, 0, 0, 1>> :>
      <<77, 213, 74, 182, 1, 110, 174, 122, 240, 111, 213, 196, 114, 150,
      146, 118, 131, 133, 250, 96, 36, 108, 88, 211, 10, 113, 132, 67, 109,
      160, 209, 250>>)
    @@ (<<2, 0, 0, 0, 0, 1, 1, 32, 31, 30, 29, 28, 27, 26, 25, 24, 23, 22, 21,
      20, 19, 18, 17, 16, 15, 14, 13, 12, 11, 10, 9, 8, 7, 6, 5, 4, 3, 2, 1,
      2, 0, 0, 0, 0, 254, 255, 0, 0, 1, 1, 0, 0, 0, 0, 0, 0, 0, 22, 0, 20,
      173, 93, 45, 95, 155, 159, 205, 167, 49, 189, 195, 242, 14, 12, 102,
      121, 135, 190, 188, 203, 2, 3, 48, 8, 1, 2, 2, 7, 0, 0, 0, 0>> :>
      <<204, 79, 229, 145, 26, 186, 94, 239, 176, 115, 11, 160, 59, 82, 73,
      21, 230, 0, 129, 64, 137, 24, 155, 22, 196, 217, 184, 195, 244, 54,
      219, 243>>)
    @@ (<<1, 0, 0, 0, 2, 17, 17, 17, 17, 17, 17, 17, 17, 17, 17, 17, 17, 17, 17,
      17, 17, 17, 17, 17, 17, 17, 17, 17, 17, 17, 17, 17, 17, 17, 17, 17, 17,
      0, 0, 0, 0, 0, 254, 255, 0, 0, 17, 17, 17, 17, 17, 17, 17, 17, 17, 17,
      17, 17, 17, 17, 17, 17, 17, 17, 17, 17, 17, 17, 17, 17, 17, 17, 17, 17,
      17, 17, 17, 17, 0, 0, 0, 0, 1, 97, 254, 255, 0, 0, 0, 0, 0, 0, 0, 1, 0,
      0, 0>> :> <<187, 24, 235, 213, 142, 136, 50, 122, 44, 162, 255, 114,
      82, 28, 208, 255, 223, 28, 166, 117, 63, 182, 234, 93, 221, 213, 176,
      194, 151, 211, 26, 245>>)
    @@ (<<1, 0, 0, 0, 2, 17, 17, 17, 17, 17, 17, 17, 17, 17, 17, 17, 17, 17, 17,
      17, 17, 17, 17, 17, 17, 17, 17, 17, 17, 17, 17, 17, 17, 17, 17, 17, 17,
      0, 0, 0, 0, 0, 254, 255, 0, 0, 17, 17, 17, 17, 17, 17, 17, 17, 17, 17,
      17, 17, 17, 17, 17, 17, 17, 17, 17, 17, 17, 17, 17, 17, 17, 17, 17, 17,
      17, 17, 17, 17, 0, 0, 0, 0, 1, 172, 254, 255, 0, 0, 0, 0, 0, 0, 0, 1,
      0, 0, 0>> :> <<232, 239, 181, 124, 249, 175, 173, 31, 61, 176, 80, 188,
      40, 114, 108, 125, 42, 107, 143, 248, 234, 248, 133, 100, 236, 187, 44,
      42, 59, 103, 147, 197>>)
    @@ (<<1, 0, 0, 0, 2, 17, 17, 17, 17, 17, 17, 17, 17, 17, 17, 17, 17, 17, 17,
      17, 17, 17, 17, 17, 17, 17, 17, 17, 17, 17, 17, 17, 17, 17, 17, 17, 17,
      0, 0, 0, 0, 0, 254, 255, 0, 0, 17, 17, 17, 17, 17, 17, 17, 17, 17, 17,
      17, 17, 17, 17, 17, 17, 17, 17, 17, 17, 17, 17, 17, 17, 17, 17, 17, 17,
      17, 17, 17, 17, 1, 0, 0, 0, 1, 97, 254, 255, 0, 0, 0, 0, 0, 0, 0, 1, 0,
      0, 0>> :> <<153, 23, 195, 142, 125, 181, 23, 253, 218, 120, 138, 217,
      130, 70, 119, 41, 137, 236, 93, 63, 110, 242, 255, 31, 161, 245, 252,
      28, 210, 148, 136, 26>>)
    @@ (<<1, 0, 0, 0, 2, 17, 17, 17, 17, 17, 17, 17, 17, 17, 17, 17, 17, 17, 17,
      17, 17, 17, 17, 17, 17, 17, 17, 17, 17, 17, 17, 17, 17, 17, 17, 17, 17,
      0, 0, 0, 0, 1, 97, 254, 255, 0, 0, 17, 17, 17, 17, 17, 17, 17, 17, 17,
      17, 17, 17, 17, 17, 17, 17, 17, 17, 17, 17, 17, 17, 17, 17, 17, 17, 17,
      17, 17, 17, 17, 17, 0, 0, 0, 0, 0, 254, 255, 0, 0, 0, 0, 0, 0, 0, 1, 0,
      0, 0>> :> <<65, 92, 194, 83, 133, 137, 163, 105, 25, 213, 147, 140, 15,
      123, 80, 98, 96, 227, 90, 55, 145, 60, 216, 232, 66, 84, 77, 200, 169,
      220, 17, 207>>)
    @@ (<<1, 0, 0, 0, 2, 17, 17, 17, 17, 17, 17, 17, 17, 17, 17, 17, 17, 17, 17,
      17, 17, 17, 17, 17, 17, 17, 17, 17, 17, 17, 17, 17, 17, 17, 17, 17, 17,
      0, 0, 0, 0, 1, 97, 254, 255, 0, 0, 17, 17, 17, 17, 17, 17, 17, 17, 17,
      17, 17, 17, 17, 17, 17, 17, 17, 17, 17, 17, 17, 17, 17, 17, 17, 17, 17,
      17, 17, 17, 17, 17, 1, 0, 0, 0, 0, 254, 255, 0, 0, 0, 0, 0, 0, 0, 1, 0,
      0, 0>> :> <<106, 163, 203, 243, 67, 10, 55, 192, 6, 85, 154, 61, 86,
      178, 13, 222, 123, 136, 231, 67, 224, 95, 216, 46, 243, 86, 95, 79,
      121, 132, 96, 134>>)
    @@ (<<1, 0, 0, 0, 2, 17, 17, 17, 17, 17, 17, 17, 17, 17, 17, 17, 17, 17, 17,
      17, 17, 17, 17, 17, 17, 17, 17, 17, 17, 17, 17, 17, 17, 17, 17, 17, 17,
      0, 0, 0, 0, 1, 172, 254, 255, 0, 0, 17, 17, 17, 17, 17, 17, 17, 17, 17,
      17, 17, 17, 17, 17, 17, 17, 17, 17, 17, 17, 17, 17, 17, 17, 17, 17, 17,
      17, 17, 17, 17, 17, 0, 0, 0, 0, 0, 254, 255, 0, 0, 0, 0, 0, 0, 0, 1, 0,
      0, 0>> :> <<213, 174, 82, 215, 28, 118, 236, 110, 193, 202, 107, 200,
      21, 126, 143, 69, 132, 32, 156, 76, 202, 115, 250, 157, 242, 28, 124,
      236, 103, 61, 97, 108>>)
    @@ (<<1, 0, 0, 0, 2, 17, 17, 17, 17, 17, 17, 17, 17, 17, 17, 17, 17, 17, 17,
      17, 17, 17, 17, 17, 17, 17, 17, 17, 17, 17, 17, 17, 17, 17, 17, 17, 17,
      0, 0, 0, 0, 1, 172, 254, 255, 0, 0, 17, 17, 17, 17, 17, 17, 17, 17, 17,
      17, 17, 17, 17, 17, 17, 17, 17, 17, 17, 17, 17, 17, 17, 17, 17, 17, 17,
      17, 17, 17, 17, 17, 1, 0, 0, 0, 0, 254, 255, 0, 0, 0, 0, 0, 0, 0, 1, 0,
      0, 0>> :> <<98, 132, 10, 32, 146, 164, 159, 118, 14, 144, 3, 165, 123,
      212, 218, 81, 225, 59, 127, 93, 51, 231, 172, 123, 24, 188, 64, 202,
      29, 188, 239, 248>>)
    @@ (<<1, 0, 0, 0, 2, 17, 17, 17, 17, 17, 17, 17, 17, 17, 17, 17, 17, 17, 17,
      17, 17, 17, 17, 17, 17, 17, 17, 17, 17, 17, 17, 17, 17, 17, 17, 17, 17,
      1, 0, 0, 0, 0, 254, 255, 0, 0, 17, 17, 17, 17, 17, 17, 17, 17, 17, 17,
      17, 17, 17, 17, 17, 17, 17, 17, 17, 17, 17, 17, 17, 17, 17, 17, 17, 17,
      17, 17, 17, 17, 0, 0, 0, 0, 1, 97, 254, 255, 0, 0, 0, 0, 0, 0, 0, 1, 0,
      0, 0>> :> <<68, 191, 55, 124, 243, 248, 252, 74, 84, 123, 128, 69, 153,
      36, 182, 195, 220, 237, 124, 217, 154, 31, 156, 43, 47, 8, 67, 84, 160,
      47, 27, 32>>)
    @@ (<<1, 0, 0, 0, 2, 17, 17, 17, 17, 17, 17, 17, 17, 17, 17, 17, 17, 17, 17,
      17, 17, 17, 17, 17, 17, 17, 17, 17, 17, 17, 17, 17, 17, 17, 17, 17, 17,
      1, 0, 0, 0, 0, 254, 255, 0, 0, 17, 17, 17, 17, 17, 17, 17, 17, 17, 17,
      17, 17, 17, 17, 17, 17, 17, 17, 17, 17, 17, 17, 17, 17, 17, 17, 17, 17,
      17, 17, 17, 17, 0, 0, 0, 0, 1, 172, 254, 255, 0, 0, 0, 0, 0, 0, 0, 1,
      0, 0, 0>> :> <<171, 113, 245, 228, 41, 31, 190, 165, 248, 237, 148, 57,
      42, 35, 250, 24, 140, 134, 122, 148, 55, 29, 120, 89, 175, 33, 166,
      216, 179, 172, 68, 191>>)
    @@ (<<1, 0, 0, 0, 2, 17, 17, 17, 17, 17, 17, 17, 17, 17, 17, 17, 17, 17, 17,
      17, 17, 17, 17, 17, 17, 17, 17, 17, 17, 17, 17, 17, 17, 17, 17, 17, 17,
      1, 0, 0, 0, 0, 254, 255, 0, 0, 17, 17, 17, 17, 17, 17, 17, 17, 17, 17,
      17, 17, 17, 17, 17, 17, 17, 17, 17, 17, 17, 17, 17, 17, 17, 17, 17, 17,
      17, 17, 17, 17, 1, 0, 0, 0, 1, 97, 254, 255, 0, 0, 0, 0, 0, 0, 0, 1, 0,
      0, 0>> :> <<118, 206, 82, 105, 58, 163, 175, 150, 23, 0, 184, 171, 41,
      144, 59, 207, 226, 170, 63, 115, 230, 211, 238, 230, 77, 178, 138, 202,
      124, 94, 171, 47>>)
    @@ (<<1, 0, 0, 0, 2, 17, 17, 17, 17, 17, 17, 17, 17, 17, 17, 17, 17, 17, 17,
      17, 17, 17, 17, 17, 17, 17, 17, 17, 17, 17, 17, 17, 17, 17, 17, 17, 17,
      1, 0, 0, 0, 1, 97, 254, 255, 0, 0, 17, 17, 17, 17, 17, 17, 17, 17, 17,
      17, 17, 17, 17, 17, 17, 17, 17, 17, 17, 17, 17, 17, 17, 17, 17, 17, 17,
      17, 17, 17, 17, 17, 0, 0, 0, 0, 0, 254, 255, 0, 0, 0, 0, 0, 0, 0, 1, 0,
      0, 0>> :> <<153, 119, 101, 208, 219, 140, 142, 63, 133, 126, 11, 161,
      33, 11, 153, 70, 53, 225, 80, 91, 106, 86, 21, 72, 223, 194, 54, 222,
      145, 86, 61, 225>>)
    @@ (<<1, 0, 0, 0, 2, 17, 17, 17, 17, 17, 17, 17, 17, 17, 17, 17, 17, 17, 17,
      17, 17, 17, 17, 17, 17, 17, 17, 17, 17, 17, 17, 17, 17, 17, 17, 17, 17,
      1, 0, 0, 0, 1, 97, 254, 255, 0, 0, 17, 17, 17, 17, 17, 17, 17, 17, 17,
      17, 17, 17, 17, 17, 17, 17, 17, 17, 17, 17, 17, 17, 17, 17, 17, 17, 17,
      17, 17, 17, 17, 17, 1, 0, 0, 0, 0, 254, 255, 0, 0, 0, 0, 0, 0, 0, 1, 0,
      0, 0>> :> <<212, 45, 90, 219, 27, 123, 6, 241, 8, 143, 110, 44, 255,
      144, 22, 252, 31, 85, 232, 226, 248, 10, 205, 68, 144, 3, 43, 204, 246,
      70, 250, 148>>)
    @@ (<<1, 0, 0, 0, 2, 17, 17, 17, 17, 17, 17, 17, 17, 17, 17, 17, 17, 17, 17,
      17, 17, 17, 17, 17, 17, 17, 17, 17, 17, 17, 17, 17, 17, 17, 17, 17, 17,
      0, 0, 0, 0, 0, 254, 255, 0, 0, 17, 17, 17, 17, 17, 17, 17, 17, 17, 17,
      17, 17, 17, 17, 17, 17, 17, 17, 17, 17, 17, 17, 17, 17, 17, 17, 17, 17,
      17, 17, 17, 17, 0, 0, 0, 0, 2, 81, 135, 254, 255, 0, 0, 0, 0, 0, 0, 0,
      1, 0, 0, 0>> :> <<70, 169, 242, 63, 108, 85, 225, 162, 97, 63, 196,
      254, 132, 125, 69, 185, 185, 79, 226, 9, 190, 94, 67, 0, 208, 125, 125,
      37, 142, 102, 236, 117>>)
    @@ (<<1, 0, 0, 0, 2, 17, 17, 17, 17, 17, 17, 17, 17, 17, 17, 17, 17, 17, 17,
      17, 17, 17, 17, 17, 17, 17, 17, 17, 17, 17, 17, 17, 17, 17, 17, 17, 17,
      0, 0, 0, 0, 2, 81, 135, 254, 255, 0, 0, 17, 17, 17, 17, 17, 17, 17, 17,
      17, 17, 17, 17, 17, 17, 17, 17, 17, 17, 17, 17, 17, 17, 17, 17, 17, 17,
      17, 17, 17, 17, 17, 17, 0, 0, 0, 0, 0, 254, 255, 0, 0, 0, 0, 0, 0, 0,
      1, 0, 0, 0>> :> <<130, 23, 203, 11, 209, 108, 192, 104, 27, 180, 127,
      57, 124, 94, 184, 33, 125, 14, 234, 110, 116, 52, 199, 27, 255, 144,
      199, 254, 46, 105, 209, 169>>)
    @@ (<<1, 0, 0, 0, 2, 17, 17, 17, 17, 17, 17, 17, 17, 17, 17, 17, 17, 17, 17,
      17, 17, 17, 17, 17, 17, 17, 17, 17, 17, 17, 17, 17, 17, 17, 17, 17, 17,
      0, 0, 0, 0, 2, 81, 135, 254, 255, 0, 0, 17, 17, 17, 17, 17, 17, 17, 17,
      17, 17, 17, 17, 17, 17, 17, 17, 17, 17, 17, 17, 17, 17, 17, 17, 17, 17,
      17, 17, 17, 17, 17, 17, 1, 0, 0, 0, 0, 254, 255, 0, 0, 0, 0, 0, 0, 0,
      1, 0, 0, 0>> :> <<219, 182, 76, 148, 105, 140, 85, 46, 218, 70, 232,
      99, 106, 101, 6, 78, 223, 71, 41, 70, 140, 90, 203, 115, 133, 191, 26,
      225, 54, 209, 138, 193>>)
    @@ (<<1, 0, 0, 0, 2, 17, 17, 17, 17, 17, 17, 17, 17, 17, 17, 17, 17, 17, 17,
      17, 17, 17, 17, 17, 17, 17, 17, 17, 17, 17, 17, 17, 17, 17, 17, 17, 17,
      1, 0, 0, 0, 0, 254, 255, 0, 0, 17, 17, 17, 17, 17, 17, 17, 17, 17, 17,
      17, 17, 17, 17, 17, 17, 17, 17, 17, 17, 17, 17, 17, 17, 17, 17, 17, 17,
      17, 17, 17, 17, 0, 0, 0, 0, 2, 81, 135, 254, 255, 0, 0, 0, 0, 0, 0, 0,
      1, 0, 0, 0>> :> <<235, 89, 37, 55, 186, 211, 239, 157, 14, 21, 25, 71,
      238, 212, 139, 36, 203, 53, 59, 195, 33, 250, 215, 159, 39, 230, 104,
      250, 120, 149, 235, 119>>)
    @@ (<<1, 0, 0, 0, 2, 17, 17, 17, 17, 17, 17, 17, 17, 17, 17, 17, 17, 17, 17,
      17, 17, 17, 17, 17, 17, 17, 17, 17, 17, 17, 17, 17, 17, 17, 17, 17, 17,
      0, 0, 0, 0, 0, 254, 255, 0, 0, 17, 17, 17, 17, 17, 17, 17, 17, 17, 17,
      17, 17, 17, 17, 17, 17, 17, 17, 17, 17, 17, 17, 17, 17, 17, 17, 17, 17,
      17, 17, 17, 17, 0, 0, 0, 0, 1, 97, 254, 255, 0, 0, 1, 1, 0, 0, 0, 0, 0,
      0, 0, 1, 81, 0, 0, 0, 0, 1, 0, 0, 0>> :> <<71, 167, 169, 161, 49, 126,
      3, 217, 57, 68, 122, 239, 188, 99, 165, 231, 184, 157, 127, 196, 62,
      174, 237, 223, 150, 72, 105, 247, 29, 211, 180, 212>>)
    @@ (<<1, 0, 0, 0, 2, 17, 17, 17, 17, 17, 17, 17, 17, 17, 17, 17, 17, 17, 17,
      17, 17, 17, 17, 17, 17, 17, 17, 17, 17, 17, 17, 17, 17, 17, 17, 17, 17,
      0, 0, 0, 0, 0, 254, 255, 0, 0, 17, 17, 17, 17, 17, 17, 17, 17, 17, 17,
      17, 17, 17, 17, 17, 17, 17, 17, 17, 17, 17, 17, 17, 17, 17, 17, 17, 17,
      17, 17, 17, 17, 1, 0, 0, 0, 1, 97, 254, 255, 0, 0, 1, 1, 0, 0, 0, 0, 0,
      0, 0, 1, 81, 0, 0, 0, 0, 1, 0, 0, 0>> :> <<18, 164, 225, 45, 253, 15,
      12, 78, 235, 88, 18, 160, 118, 34, 120, 111, 1, 153, 110, 134, 137, 95,
      127, 242, 192, 60, 101, 178, 2, 26, 11, 21>>)
    @@ (<<1, 0, 0, 0, 2, 17, 17, 17, 17, 17, 17, 17, 17, 17, 17, 17, 17, 17, 17,
      17, 17, 17, 17, 17, 17, 17, 17, 17, 17, 17, 17, 17, 17, 17, 17, 17, 17,
      0, 0, 0, 0, 1, 97, 254, 255, 0, 0, 17, 17, 17, 17, 17, 17, 17, 17, 17,
      17, 17, 17, 17, 17, 17, 17, 17, 17, 17, 17, 17, 17, 17, 17, 17, 17, 17,
      17, 17, 17, 17, 17, 0, 0, 0, 0, 0, 254, 255, 0, 0, 1, 1, 0, 0, 0, 0, 0,
      0, 0, 1, 81, 0, 0, 0, 0, 1, 0, 0, 0>> :> <<141, 158, 29, 160, 50, 93,
      204, 156, 218, 128, 74, 168, 25, 4, 33, 176, 62, 148, 238, 142, 195,
      69, 64, 43, 142, 180, 79, 79, 254, 179, 179, 116>>)
    @@ (<<1, 0, 0, 0, 2, 17, 17, 17, 17, 17, 17, 17, 17, 17, 17, 17, 17, 17, 17,
      17, 17, 17, 17, 17, 17, 17, 17, 17, 17, 17, 17, 17, 17, 17, 17, 17, 17,
      0, 0, 0, 0, 1, 97, 254, 255, 0, 0, 17, 17, 17, 17, 17, 17, 17, 17, 17,
      17, 17, 17, 17, 17, 17, 17, 17, 17, 17, 17, 17, 17, 17, 17, 17, 17, 17,
      17, 17, 17, 17, 17, 1, 0, 0, 0, 0, 254, 255, 0, 0, 1, 1, 0, 0, 0, 0, 0,
      0, 0, 1, 81, 0, 0, 0, 0, 1, 0, 0, 0>> :> <<115, 153, 201, 237, 243,
      215, 24, 231, 207, 179, 49, 234, 214, 4, 102, 254, 28, 164, 119, 25,
      52, 93, 10, 213, 189, 4, 210, 83, 236, 43, 66, 189>>)
    @@ (<<1, 0, 0, 0, 2, 17, 17, 17, 17, 17, 17, 17, 17, 17, 17, 17, 17, 17, 17,
      17, 17, 17, 17, 17, 17, 17, 17, 17, 17, 17, 17, 17, 17, 17, 17, 17, 17,
      1, 0, 0, 0, 0, 254, 255, 0, 0, 17, 17, 17, 17, 17, 17, 17, 17, 17, 17,
      17, 17, 17, 17, 17, 17, 17, 17, 17, 17, 17, 17, 17, 17, 17, 17, 17, 17,
      17, 17, 17, 17, 0, 0, 0, 0, 1, 97, 254, 255, 0, 0, 1, 1, 0, 0, 0, 0, 0,
      0, 0, 1, 81, 0, 0, 0, 0, 1, 0, 0, 0>> :> <<186, 80, 201, 164, 170, 53,
      221, 132, 32, 224, 87, 196, 167, 137, 86, 191, 220, 36, 144, 51, 100,
      210, 245, 143, 47, 132, 97, 160, 89, 3, 81, 23>>)
    @@ (<<1, 0, 0, 0, 2, 17, 17, 17, 17, 17, 17, 17, 17, 17, 17, 17, 17, 17, 17,
      17, 17, 17, 17, 17, 17, 17, 17, 17, 17, 17, 17, 17, 17, 17, 17, 17, 17,
      1, 0, 0, 0, 0, 254, 255, 0, 0, 17, 17, 17, 17, 17, 17, 17, 17, 17, 17,
      17, 17, 17, 17, 17, 17, 17, 17, 17, 17, 17, 17, 17, 17, 17, 17, 17, 17,
      17, 17, 17, 17, 1, 0, 0, 0, 1, 97, 254, 255, 0, 0, 1, 1, 0, 0, 0, 0, 0,
      0, 0, 1, 81, 0, 0, 0, 0, 1, 0, 0, 0>> :> <<218, 70, 155, 43, 153, 19,
      220, 236, 107, 210, 112, 136, 42, 170, 192, 73, 191, 45, 134, 166, 182,
      234, 29, 151, 132, 252, 200, 180, 181, 171, 37, 157>>)
    @@ (<<1, 0, 0, 0, 2, 17, 17, 17, 17, 17, 17, 17, 17, 17, 17, 17, 17, 17, 17,
      17, 17, 17, 17, 17, 17, 17, 17, 17, 17, 17, 17, 17, 17, 17, 17, 17, 17,
      1, 0, 0, 0, 1, 97, 254, 255, 0, 0, 17, 17, 17, 17, 17, 17, 17, 17, 17,
      17, 17, 17, 17, 17, 17, 17, 17, 17, 17, 17, 17, 17, 17, 17, 17, 17, 17,
      17, 17, 17, 17, 17, 0, 0, 0, 0, 0, 254, 255, 0, 0, 1, 1, 0, 0, 0, 0, 0,
      0, 0, 1, 81, 0, 0, 0, 0, 1, 0, 0, 0>> :> <<133, 195, 95, 161, 10, 148,
      185, 11, 90, 203, 85, 218, 134, 163, 145, 206, 233, 142, 198, 154, 91,
      230, 97, 116, 211, 49, 248, 192, 187, 3, 153, 41>>)
    @@ (<<1, 0, 0, 0, 2, 17, 17, 17, 17, 17, 17, 17, 17, 17, 17, 17, 17, 17, 17,
      17, 17, 17, 17, 17, 17, 17, 17, 17, 17, 17, 17, 17, 17, 17, 17, 17, 17,
      1, 0, 0, 0, 1, 97, 254, 255, 0, 0, 17, 17, 17, 17, 17, 17, 17, 17, 17,
      17, 17, 17, 17, 17, 17, 17, 17, 17, 17, 17, 17, 17, 17, 17, 17, 17, 17,
      17, 17, 17, 17, 17, 1, 0, 0, 0, 0, 254, 255, 0, 0, 1, 1, 0, 0, 0, 0, 0,
      0, 0, 1, 81, 0, 0, 0, 0, 1, 0, 0, 0>> :> <<142, 232, 2, 231, 91, 173,
      169, 45, 98, 54, 180, 210, 40, 167, 141, 250, 49, 250, 34, 195, 128,
      164, 6, 181, 231, 33, 44, 148, 6, 115, 245, 117>>)
    @@ (<<1, 0, 0, 0, 2, 17, 17, 17, 17, 17, 17, 17, 17, 17, 17, 17, 17, 17, 17,
      17, 17, 17, 17, 17, 17, 17, 17, 17, 17, 17, 17, 17, 17, 17, 17, 17, 17,
      0, 0, 0, 0, 0, 254, 255, 0, 0, 17, 17, 17, 17, 17, 17, 17, 17, 17, 17,
      17, 17, 17, 17, 17, 17, 17, 17, 17, 17, 17, 17, 17, 17, 17, 17, 17, 17,
      17, 17, 17, 17, 0, 0, 0, 0, 2, 81, 135, 254, 255, 0, 0, 1, 1, 0, 0, 0,
      0, 0, 0, 0, 1, 81, 0, 0, 0, 0, 1, 0, 0, 0>> :> <<62, 130, 153, 42, 174,
      90, 169, 131, 22, 171, 90, 87, 156, 111, 44, 12, 181, 109, 121, 121,
      61, 1, 73, 238, 64, 115, 230, 53, 63, 2, 15, 164>>)
    @@ (<<1, 0, 0, 0, 2, 17, 17, 17, 17, 17, 17, 17, 17, 17, 17, 17, 17, 17, 17,
      17, 17, 17, 17, 17, 17, 17, 17, 17, 17, 17, 17, 17, 17, 17, 17, 17, 17,
      0, 0, 0, 0, 2, 81, 135, 254, 255, 0, 0, 17, 17, 17, 17, 17, 17, 17, 17,
      17, 17, 17, 17, 17, 17, 17, 17, 17, 17, 17, 17, 17, 17, 17, 17, 17, 17,
      17, 17, 17, 17, 17, 17, 0, 0, 0, 0, 0, 254, 255, 0, 0, 1, 1, 0, 0, 0,
      0, 0, 0, 0, 1, 81, 0, 0, 0, 0, 1, 0, 0, 0>> :> <<248, 209, 21, 174, 72,
      207, 184, 91, 109, 253, 182, 130, 230, 134, 74, 62, 24, 73, 187, 245,
      216, 4, 187, 176, 94, 146, 234, 158, 12, 206, 255, 142>>)
    @@ (<<1, 0, 0, 0, 2, 17, 17, 17, 17, 17, 17, 17, 17, 17, 17, 17, 17, 17, 17,
      17, 17, 17, 17, 17, 17, 17, 17, 17, 17, 17, 17, 17, 17, 17, 17, 17, 17,
      0, 0, 0, 0, 2, 81, 135, 254, 255, 0, 0, 17, 17, 17, 17, 17, 17, 17, 17,
      17, 17, 17, 17, 17, 17, 17, 17, 17, 17, 17, 17, 17, 17, 17, 17, 17, 17,
      17, 17, 17, 17, 17, 17, 1, 0, 0, 0, 0, 254, 255, 0, 0, 1, 1, 0, 0, 0,
      0, 0, 0, 0, 1, 81, 0, 0, 0, 0, 1, 0, 0, 0>> :> <<94, 220, 134, 199,
      128, 173, 30, 81, 168, 208, 233, 249, 50, 196, 44, 221, 121, 69, 92,
      36, 164, 234, 211, 120, 5, 24, 210, 118, 246, 14, 219, 68>>)
    @@ (<<1, 0, 0, 0, 2, 17, 17, 17, 17, 17, 17, 17, 17, 17, 17, 17, 17, 17, 17,
      17, 17, 17, 17, 17, 17, 17, 17, 17, 17, 17, 17, 17, 17, 17, 17, 17, 17,
      1, 0, 0, 0, 0, 254, 255, 0, 0, 17, 17, 17, 17, 17, 17, 17, 17, 17, 17,
      17, 17, 17, 17, 17, 17, 17, 17, 17, 17, 17, 17, 17, 17, 17, 17, 17, 17,
      17, 17, 17, 17, 0, 0, 0, 0, 2, 81, 135, 254, 255, 0, 0, 1, 1, 0, 0, 0,
      0, 0, 0, 0, 1, 81, 0, 0, 0, 0, 1, 0, 0, 0>> :> <<76, 123, 77, 172, 168,
      184, 195, 47, 16, 164, 35, 191, 133, 141, 203, 85, 204, 122, 174, 251,
      130, 171, 29, 55, 74, 65, 54, 110, 224, 249, 236, 73>>)
    @@ (<<127, 17, 1, 0, 0, 0, 0, 0, 0, 0, 0, 0, 0, 241, 83, 101, 0, 0, 0, 0, 0,
      0, 0, 0, 0, 0, 0, 0, 0, 0, 0, 0, 0, 0, 0, 0, 0, 0, 255, 255, 0, 0, 0,
      0, 141, 32, 0, 0, 0, 0, 0, 0, 0, 0, 0, 0, 0, 0, 0, 0, 0, 0, 0, 0, 255,
      255, 0, 0, 0, 0, 141, 32, 1, 2, 3, 4, 5, 6, 7, 8, 22, 112, 114, 111,
      103, 114, 97, 109, 109, 105, 110, 103, 98, 105, 116, 99, 111, 105, 110,
      58, 48, 46, 49, 0, 0, 0, 0, 0>> :> <<234, 255, 23, 235, 214, 35, 244,
      114, 13, 224, 65, 82, 230, 13, 207, 172, 1, 189, 6, 50, 170, 172, 89,
      98, 249, 115, 94, 35, 218, 203, 2, 182>>)
    @@ (<<1, 0, 0, 0, 2, 17, 17, 17, 17, 17, 17, 17, 17, 17, 17, 17, 17, 17, 17,
      17, 17, 17, 17, 17, 17, 17, 17, 17, 17, 17, 17, 17, 17, 17, 17, 17, 17,
      0, 0, 0, 0, 0, 254, 255, 0, 0, 17, 17, 17, 17, 17, 17, 17, 17, 17, 17,
      17, 17, 17, 17, 17, 17, 17, 17, 17, 17, 17, 17, 17, 17, 17, 17, 17, 17,
      17, 17, 17, 17, 1, 0, 0, 0, 25, 118, 169, 20, 173, 93, 45, 95, 155,
      159, 205, 167, 49, 189, 195, 242, 14, 12, 102, 121, 135, 190, 188, 203,
      136, 172, 254, 255, 0, 0, 0, 0, 0, 0, 0, 1, 0, 0, 0>> :> <<151, 95,
      188, 66, 236, 217, 42, 63, 221, 22, 220, 42, 16, 210, 220, 186, 80, 24,
      173, 48, 119, 29, 119, 157, 82, 120, 137, 250, 45, 199, 84, 32>>)
    @@ (<<1, 0, 0, 0, 2, 17, 17, 17, 17, 17, 17, 17, 17, 17, 17, 17, 17, 17, 17,
      17, 17, 17, 17, 17, 17, 17, 17, 17, 17, 17, 17, 17, 17, 17, 17, 17, 17,
      1, 0, 0, 0, 0, 254, 255, 0, 0, 17, 17, 17, 17, 17, 17, 17, 17, 17, 17,
      17, 17, 17, 17, 17, 17, 17, 17, 17, 17, 17, 17, 17, 17, 17, 17, 17, 17,
      17, 17, 17, 17, 1, 0, 0, 0, 25, 118, 169, 20, 173, 93, 45, 95, 155,
      159, 205, 167, 49, 189, 195, 242, 14, 12, 102, 121, 135, 190, 188, 203,
      136, 172, 254, 255, 0, 0, 0, 0, 0, 0, 0, 1, 0, 0, 0>> :> <<167, 246,
      251, 4, 137, 221, 16, 113, 224, 6, 71, 122, 32, 241, 111, 108, 216,
      236, 246, 80, 242, 59, 227, 10, 113, 189, 149, 200, 146, 70, 191, 59>>)
    @@ (<<1, 0, 0, 0, 2, 17, 17, 17, 17, 17, 17, 17, 17, 17, 17, 17, 17, 17, 17,
      17, 17, 17, 17, 17, 17, 17, 17, 17, 17, 17, 17, 17, 17, 17, 17, 17, 17,
      1, 0, 0, 0, 25, 118, 169, 20, 173, 93, 45, 95, 155, 159, 205, 167, 49,
      189, 195, 242, 14, 12, 102, 121, 135, 190, 188, 203, 136, 172, 254,
      255, 0, 0, 17, 17, 17, 17, 17, 17, 17, 17, 17, 17, 17, 17, 17, 17, 17,
      17, 17, 17, 17, 17, 17, 17, 17, 17, 17, 17, 17, 17, 17, 17, 17, 17, 0,
      0, 0, 0, 0, 254, 255, 0, 0, 0, 0, 0, 0, 0, 1, 0, 0, 0>> :> <<164, 71,
      99, 190, 126, 237, 31, 156, 98, 121, 172, 65, 14, 231, 199, 26, 175,
      120, 185, 89, 106, 187, 39, 208, 102, 253, 46, 215, 243, 86, 205,
      252>>)
    @@ (<<1, 0, 0, 0, 2, 17, 17, 17, 17, 17, 17, 17, 17, 17, 17, 17, 17, 17, 17,
      17, 17, 17, 17, 17, 17, 17, 17, 17, 17, 17, 17, 17, 17, 17, 17, 17, 17,
      1, 0, 0, 0, 25, 118, 169, 20, 173, 93, 45, 95, 155, 159, 205, 167, 49,
      189, 195, 242, 14, 12, 102, 121, 135, 190, 188, 203, 136, 172, 254,
      255, 0, 0, 17, 17, 17, 17, 17, 17, 17, 17, 17, 17, 17, 17, 17, 17, 17,
      17, 17, 17, 17, 17, 17, 17, 17, 17, 17, 17, 17, 17, 17, 17, 17, 17, 1,
      0, 0, 0, 0, 254, 255, 0, 0, 0, 0, 0, 0, 0, 1, 0, 0, 0>> :> <<219, 166,
      147, 6, 9, 158, 202, 159, 67, 40, 206, 244, 152, 238, 51, 83, 48, 129,
      116, 151, 72, 229, 138, 107, 115, 55, 3, 167, 228, 133, 176, 105>>)
    @@ (<<1, 0, 0, 0, 2, 17, 17, 17, 17, 17, 17, 17, 17, 17, 17, 17, 17, 17, 17,
      17, 17, 17, 17, 17, 17, 17, 17, 17, 17, 17, 17, 17, 17, 17, 17, 17, 17,
      0, 0, 0, 0, 0, 254, 255, 0, 0, 17, 17, 17, 17, 17, 17, 17, 17, 17, 17,
      17, 17, 17, 17, 17, 17, 17, 17, 17, 17, 17, 17, 17, 17, 17, 17, 17, 17,
      17, 17, 17, 17, 1, 0, 0, 0, 26, 118, 169, 20, 173, 93, 45, 95, 155,
      159, 205, 167, 49, 189, 195, 242, 14, 12, 102, 121, 135, 190, 188, 203,
      135, 105, 172, 254, 255, 0, 0, 0, 0, 0, 0, 0, 1, 0, 0, 0>> :> <<185,
      95, 236, 55, 194, 186, 169, 22, 85, 74, 25, 230, 90, 129, 105, 122,
      207, 246, 144, 9, 38, 174, 207, 246, 31, 30, 240, 177, 105, 126, 189,
      161>>)
    @@ (<<1, 0, 0, 0, 2, 17, 17, 17, 17, 17, 17, 17, 17, 17, 17, 17, 17, 17, 17,
      17, 17, 17, 17, 17, 17, 17, 17, 17, 17, 17, 17, 17, 17, 17, 17, 17, 17,
      1, 0, 0, 0, 0, 254, 255, 0, 0, 17, 17, 17, 17, 17, 17, 17, 17, 17, 17,
      17, 17, 17, 17, 17, 17, 17, 17, 17, 17, 17, 17, 17, 17, 17, 17, 17, 17,
      17, 17, 17, 17, 1, 0, 0, 0, 26, 118, 169, 20, 173, 93, 45, 95, 155,
      159, 205, 167, 49, 189, 195, 242, 14, 12, 102, 121, 135, 190, 188, 203,
      135, 105, 172, 254, 255, 0, 0, 0, 0, 0, 0, 0, 1, 0, 0, 0>> :> <<142, 1,
      8, 18, 15, 241, 150, 203, 28, 173, 200, 81, 25, 121, 252, 119, 214, 15,
      128, 118, 0, 198, 83, 199, 65, 6, 73, 114, 227, 55, 230, 50>>)
    @@ (<<1, 0, 0, 0, 2, 17, 17, 17, 17, 17, 17, 17, 17, 17, 17, 17, 17, 17, 17,
      17, 17, 17, 17, 17, 17, 17, 17, 17, 17, 17, 17, 17, 17, 17, 17, 17, 17,
      1, 0, 0, 0, 26, 118, 169, 20, 173, 93, 45, 95, 155, 159, 205, 167, 49,
      189, 195, 242, 14, 12, 102, 121, 135, 190, 188, 203, 135, 105, 172,
      254, 255, 0, 0, 17, 17, 17, 17, 17, 17, 17, 17, 17, 17, 17, 17, 17, 17,
      17, 17, 17, 17, 17, 17, 17, 17, 17, 17, 17, 17, 17, 17, 17, 17, 17, 17,
      0, 0, 0, 0, 0, 254, 255, 0, 0, 0, 0, 0, 0, 0, 1, 0, 0, 0>> :> <<91, 61,
      252, 227, 127, 8, 212, 167, 89, 74, 177, 161, 185, 244, 143, 92, 116,
      57, 205, 168, 77, 112, 96, 186, 124, 46, 15, 171, 146, 30, 173, 251>>)
    @@ (<<1, 0, 0, 0, 2, 17, 17, 17, 17, 17, 17, 17, 17, 17, 17, 17, 17, 17, 17,
      17, 17, 17, 17, 17, 17, 17, 17, 17, 17, 17, 17, 17, 17, 17, 17, 17, 17,
      1, 0, 0, 0, 26, 118, 169, 20, 173, 93, 45, 95, 155, 159, 205, 167, 49,
      189, 195, 242, 14, 12, 102, 121, 135, 190, 188, 203, 135, 105, 172,
      254, 255, 0, 0, 17, 17, 17, 17, 17, 17, 17, 17, 17, 17, 17, 17, 17, 17,
      17, 17, 17, 17, 17, 17, 17, 17, 17, 17, 17, 17, 17, 17, 17, 17, 17, 17,
      1, 0, 0, 0, 0, 254, 255, 0, 0, 0, 0, 0, 0, 0, 1, 0, 0, 0>> :> <<88, 84,
      91, 252, 131, 120, 101, 162, 14, 149, 229, 223, 42, 139, 240, 68, 122,
      149, 217, 125, 170, 200, 66, 81, 141, 31, 225, 142, 251, 128, 192,
      175>>)
    @@ (<<1, 0, 0, 0, 2, 17, 17, 17, 17, 17, 17, 17, 17, 17, 17, 17, 17, 17, 17,
      17, 17, 17, 17, 17, 17, 17, 17, 17, 17, 17, 17, 17, 17, 17, 17, 17, 17,
      0, 0, 0, 0, 0, 254, 255, 0, 0, 17, 17, 17, 17, 17, 17, 17, 17, 17, 17,
      17, 17, 17, 17, 17, 17, 17, 17, 17, 17, 17, 17, 17, 17, 17, 17, 17, 17,
      17, 17, 17, 17, 1, 0, 0, 0, 25, 118, 169, 20, 173, 93, 45, 95, 155,
      159, 205, 167, 49, 189, 195, 242, 14, 12, 102, 121, 135, 190, 188, 203,
      136, 172, 254, 255, 0, 0, 1, 1, 0, 0, 0, 0, 0, 0, 0, 1, 81, 0, 0, 0, 0,
      1, 0, 0, 0>> :> <<152, 182, 228, 208, 250, 229, 215, 31, 249, 100, 81,
      141, 131, 57, 224, 30, 34, 59, 30, 181, 87, 23, 217, 210, 251, 55, 237,
      167, 41, 117, 119, 193>>)
    @@ (<<1, 0, 0, 0, 2, 17, 17, 17, 17, 17, 17, 17, 17, 17, 17, 17, 17, 17, 17,
      17, 17, 17, 17, 17, 17, 17, 17, 17, 17, 17, 17, 17, 17, 17, 17, 17, 17,
      1, 0, 0, 0, 0, 254, 255, 0, 0, 17, 17, 17, 17, 17, 17, 17, 17, 17, 17,
      17, 17, 17, 17, 17, 17, 17, 17, 17, 17, 17, 17, 17, 17, 17, 17, 17, 17,
      17, 17, 17, 17, 1, 0, 0, 0, 25, 118, 169, 20, 173, 93, 45, 95, 155,
      159, 205, 167, 49, 189, 195, 242, 14, 12, 102, 121, 135, 190, 188, 203,
      136, 172, 254, 255, 0, 0, 1, 1, 0, 0, 0, 0, 0, 0, 0, 1, 81, 0, 0, 0, 0,
      1, 0, 0, 0>> :> <<208, 30, 182, 235, 216, 131, 206, 243, 199, 74, 240,
      235, 39, 235, 111, 178, 92, 165, 136, 53, 39, 137, 97, 105, 213, 124,
      200, 210, 153, 234, 192, 218>>)
    @@ (<<1, 0, 0, 0, 2, 17, 17, 17, 17, 17, 17, 17, 17, 17, 17, 17, 17, 17, 17,
      17, 17, 17, 17, 17, 17, 17, 17, 17, 17, 17, 17, 17, 17, 17, 17, 17, 17,
      1, 0, 0, 0, 25, 118, 169, 20, 173, 93, 45, 95, 155, 159, 205, 167, 49,
      189, 195, 242, 14, 12, 102, 121, 135, 190, 188, 203, 136, 172, 254,
      255, 0, 0, 17, 17, 17, 17, 17, 17, 17, 17, 17, 17, 17, 17, 17, 17, 17,
      17, 17, 17, 17, 17, 17, 17, 17, 17, 17, 17, 17, 17, 17, 17, 17, 17, 0,
      0, 0, 0, 0, 254, 255, 0, 0, 1, 1, 0, 0, 0, 0, 0, 0, 0, 1, 81, 0, 0, 0,
      0, 1, 0, 0, 0>> :> <<64, 169, 207, 154, 144, 171, 123, 153, 23, 65, 99,
      39, 171, 42, 75, 62, 219, 47, 253, 72, 23, 212, 51, 2, 158, 238, 223,
      43, 25, 215, 91, 62>>)
    @@ (<<1, 0, 0, 0, 2, 17, 17, 17, 17, 17, 17, 17, 17, 17, 17, 17, 17, 17, 17,
      17, 17, 17, 17, 17, 17, 17, 17, 17, 17, 17, 17, 17, 17, 17, 17, 17, 17,
      1, 0, 0, 0, 25, 118, 169, 20, 173, 93, 45, 95, 155, 159, 205, 167, 49,
      189, 195, 242, 14, 12, 102, 121, 135, 190, 188, 203, 136, 172, 254,
      255, 0, 0, 17, 17, 17, 17, 17, 17, 17, 17, 17, 17, 17, 17, 17, 17, 17,
      17, 17, 17, 17, 17, 17, 17, 17, 17, 17, 17, 17, 17, 17, 17, 17, 17, 1,
      0, 0, 0, 0, 254, 255, 0, 0, 1, 1, 0, 0, 0, 0, 0, 0, 0, 1, 81, 0, 0, 0,
      0, 1, 0, 0, 0>> :> <<42, 83, 73, 64, 204, 10, 145, 190, 241, 23, 156,
      8, 141, 109, 68, 127, 135, 23, 37, 72, 151, 101, 110, 52, 202, 150,
      143, 178, 234, 119, 127, 245>>)
Ripemd160Known ==
    (<<23, 168, 180, 137, 215, 181, 91, 18, 156, 241, 204, 234, 191, 135,
      190, 133, 37, 220, 71, 175, 254, 4, 113, 146, 76, 33, 183, 63, 228,
      105, 189, 99>> :> <<196, 89, 117, 247, 225, 226, 187, 11, 116, 6, 174,
      162, 4, 68, 147, 199, 239, 66, 212, 112>>)
    @@ (<<37, 223, 210, 156, 9, 97, 125, 204, 152, 82, 40, 28, 3, 14, 91, 48,
      55, 163, 56, 164, 113, 42, 66, 162, 28, 144, 127, 37, 156, 100, 18,
      160>> :> <<212, 140, 232, 108, 105, 143, 36, 104, 41, 146, 27, 169,
      251, 42, 132, 74, 226, 173, 186, 103>>)
    @@ (<<47, 4, 163, 170, 5, 31, 31, 96, 214, 149, 246, 196, 76, 12, 61, 56,
      57, 115, 223, 212, 70, 172, 232, 150, 38, 100, 167, 107, 177, 14, 49,
      168>> :> <<200, 205, 228, 205, 83, 76, 85, 206, 28, 219, 241, 230, 80,
      90, 139, 28, 83, 200, 245, 80>>)
    @@ (<<56, 62, 247, 237, 133, 67, 51, 19, 178, 227, 92, 28, 186, 159, 75,
      141, 91, 207, 181, 97, 23, 194, 183, 35, 90, 146, 193, 164, 247, 143,
      221, 49>> :> <<195, 149, 231, 84, 47, 5, 59, 191, 75, 104, 111, 122,
      143, 54, 131, 80, 89, 50, 167, 244>>)
    @@ (<<68, 51, 155, 115, 218, 41, 168, 178, 138, 93, 158, 226, 75, 33, 220,
      183, 90, 4, 163, 219, 227, 94, 6, 117, 182, 100, 40, 117, 178, 71, 160,
      90>> :> <<60, 156, 11, 169, 9, 227, 195, 193, 142, 142, 166, 11, 92,
      196, 133, 172, 36, 151, 22, 29>>)
    @@ (<<74, 232, 21, 114, 240, 110, 27, 136, 253, 92, 237, 122, 26, 0, 9, 69,
      67, 46, 131, 225, 85, 30, 111, 114, 30, 233, 192, 11, 140, 195, 50,
      96>> :> <<218, 23, 69, 233, 181, 73, 189, 11, 250, 26, 86, 153, 113,
      199, 126, 186, 48, 205, 90, 75>>)
    @@ (<<75, 40, 113, 218, 52, 103, 15, 222, 36, 134, 4, 224, 241, 143, 211,
      228, 247, 225, 230, 223, 221, 184, 88, 117, 206, 72, 19, 166, 97, 41,
      83, 187>> :> <<41, 10, 178, 73, 81, 195, 132, 189, 51, 72, 194, 151,
      227, 229, 190, 167, 89, 105, 119, 42>>)
    @@ (<<93, 246, 224, 226, 118, 19, 89, 211, 10, 130, 117, 5, 142, 41, 159,
      204, 3, 129, 83, 69, 69, 245, 92, 244, 62, 65, 152, 63, 93, 76, 148,
      86>> :> <<253, 123, 21, 220, 93, 194, 3, 149, 86, 105, 53, 85, 194,
      184, 27, 54, 200, 222, 236, 21>>)
    @@ (<<136, 102, 91, 183, 203, 92, 172, 34, 254, 66, 168, 186, 0, 24, 14, 95,
      211, 247, 235, 175, 65, 70, 88, 183, 85, 154, 191, 86, 138, 133, 204,
      16>> :> <<98, 47, 190, 111, 170, 90, 46, 72, 52, 52, 107, 183, 221,
      210, 149, 2, 140, 61, 93, 211>>)
    @@ (<<144, 66, 57, 96, 139, 185, 40, 211, 71, 201, 169, 48, 2, 203, 100,
      210, 12, 211, 241, 245, 55, 112, 71, 240, 90, 58, 92, 179, 156, 139,
      160, 3>> :> <<172, 122, 214, 122, 18, 171, 168, 43, 155, 131, 85, 25,
      51, 7, 80, 62, 138, 219, 151, 192>>)
    @@ (<<200, 53, 20, 133, 135, 113, 64, 42, 87, 182, 140, 17, 181, 133, 230,
      177, 139, 49, 34, 68, 203, 35, 100, 50, 66, 4, 229, 198, 181, 255, 92,
      74>> :> <<2, 201, 168, 0, 9, 193, 100, 32, 174, 142, 205, 62, 39, 119,
      67, 114, 221, 106, 110, 136>>)
    @@ (<<202, 151, 129, 18, 202, 27, 189, 202, 250, 194, 49, 179, 154, 35, 220,
      77, 167, 134, 239, 248, 20, 124, 78, 114, 185, 128, 119, 133, 175, 238,
      72, 187>> :> <<153, 67, 85, 25, 158, 81, 111, 247, 108, 79, 164, 170,
      179, 147, 55, 185, 216, 76, 241, 43>>)
    @@ (<<206, 67, 238, 68, 3, 147, 132, 84, 151, 124, 209, 16, 54, 62, 7, 113,
      81, 108, 24, 126, 71, 175, 212, 72, 89, 38, 17, 61, 138, 159, 15, 107>>
      :> <<173, 93, 45, 95, 155, 159, 205, 167, 49, 189, 195, 242, 14, 12,
      102, 121, 135, 190, 188, 203>>)
    @@ (<<227, 35, 18, 32, 188, 126, 175, 116, 98, 215, 118, 123, 67, 208, 186,
      15, 21, 119, 14, 234, 80, 5, 249, 95, 19, 17, 94, 50, 38, 65, 37, 248>>
      :> <<188, 119, 75, 212, 158, 86, 40, 98, 178, 131, 187, 169, 22, 94,
      17, 242, 170, 184, 102, 166>>)
    @@ (<<227, 176, 196, 66, 152, 252, 28, 20, 154, 251, 244, 200, 153, 111,
      185, 36, 39, 174, 65, 228, 100, 155, 147, 76, 164, 149, 153, 27, 120,
      82, 184, 85>> :> <<180, 114, 162, 102, 208, 189, 137, 193, 55, 6, 164,
      19, 44, 207, 177, 111, 124, 59, 159, 203>>)
    @@ (<<228, 15, 66, 101, 14, 83, 199, 34, 251, 175, 154, 31, 68, 20, 117, 21,
      229, 252, 240, 210, 193, 129, 219, 229, 198, 222, 22, 53, 32, 59, 79,
      53>> :> <<103, 105, 248, 159, 151, 242, 179, 134, 41, 31, 192, 59, 43,
      59, 21, 171, 91, 115, 241, 129>>)
    @@ (<<229, 216, 87, 196, 75, 135, 1, 136, 115, 228, 43, 245, 232, 175, 169,
      81, 180, 167, 132, 171, 124, 58, 15, 147, 44, 94, 151, 218, 85, 113,
      165, 123>> :> <<252, 69, 175, 146, 219, 162, 13, 11, 210, 176, 127,
      200, 8, 190, 207, 162, 4, 92, 217, 239>>)

\* helper.sha256 (helper.py:30-31): hashlib.sha256(s).digest().
sha256(b) ==
    With(b, LAMBDA v : IF v \in DOMAIN Sha256Known THEN Sha256Known[v]
                       ELSE Sha256Digest(v))
\* hashlib.new('ripemd160', s).digest(), as helper.hash160 calls it.
ripemd160(b) ==
    With(b, LAMBDA v : IF v \in DOMAIN Ripemd160Known THEN Ripemd160Known[v]
                       ELSE Ripemd160Digest(v))
\* helper.hash256 (helper.py:18-21): two rounds of SHA-256.
hash256(b) == With(sha256(b), LAMBDA d : sha256(d))
\* helper.hash160 (helper.py:25-27): SHA-256 followed by RIPEMD-160.
hash160(b) == With(sha256(b), LAMBDA d : ripemd160(d))

Sha256OfEmpty == sha256(<<>>)
Hash160Of27 == hash160(<<2, 7>>)

(***************************************************************************)
(* The Signature Capability (module ecc, not part of the sources): which   *)
(* encodings parse, and which signatures verify.                           *)
(***************************************************************************)
\* S256Point.parse accepts a SEC public key: a 0x02/0x03/0x04 marker and a body.
SecParses(pk) == Len(pk) >= 2 /\ pk[1] \in {2, 3, 4}
\* Signature.parse accepts a DER signature: a 0x30 marker and a body.
DerParses(sig) == Len(sig) >= 2 /\ sig[1] = 48
\* point.verify(z, sig): the signature was made by the key over z.
SigVerifies(pk, zz, sig) == sig[2] = (pk[2] + zz) % 256

(***************************************************************************)
(* src/op.py: number encoding.                                             *)
(***************************************************************************)
RECURSIVE MagnitudeBytes(_)
MagnitudeBytes(n) == IF n = 0 THEN <<>> ELSE <<n % 256>> \o MagnitudeBytes(n \div 256)

\* encode_num setting the sign in the last magnitude byte whatever its top bit.
encode_num_NoExtraByte(num) ==
    IF num = 0 THEN <<>>
    ELSE LET abs_num == IF num < 0 THEN -num ELSE num
             negative == num < 0
             res == MagnitudeBytes(abs_num)
             n == Len(res)
         IN  IF negative /\ res[n] < 128 THEN [res EXCEPT ![n] = res[n] + 128]
             ELSE res

encode_num(num) ==
    IF num = 0 THEN <<>>
    ELSE LET abs_num == IF num < 0 THEN -num ELSE num
             negative == num < 0
             res == MagnitudeBytes(abs_num)
             n == Len(res)
         IN  IF res[n] >= 128
             THEN IF negative THEN Append(res, 128) ELSE Append(res, 0)
             ELSE IF negative THEN [res EXCEPT ![n] = res[n] + 128]
             ELSE res

decode_num(element) ==
    IF element = <<>> THEN 0
    ELSE LET n == Len(element)
             negative == element[n] >= 128
             magnitude == little_endian_to_int([element EXCEPT ![n] = element[n] % 128])
         IN  IF negative THEN -magnitude ELSE magnitude

(***************************************************************************)
(* src/op.py: the opcodes.  An opcode over the stack alone returns         *)
(* [r, stack]: r is what the Python function returns ("True", "False",     *)
(* "None") or the exception it raises, stack is the stack it leaves.       *)
(***************************************************************************)
Top(st) == st[Len(st)]
Pop(st) == SubSeq(st, 1, Len(st) - 1)
\* The last k elements, st[-k:], and the rest, st[:-k] (k <= Len(st)).
LastN(st, k) == SubSeq(st, Len(st) - k + 1, Len(st))
ButLastN(st, k) == SubSeq(st, 1, Len(st) - k)
\* st without its element at position i (1-based).
RemoveAt(st, i) == SubSeq(st, 1, i - 1) \o SubSeq(st, i + 1, Len(st))
\* The 1-based position Python's st[p] / st.pop(p) addresses, 0 when out of range.
PyPos(st, p) ==
    LET q == IF p < 0 THEN Len(st) + p ELSE p
    IN  IF q >= 0 /\ q < Len(st) THEN q + 1 ELSE 0

Ret(r, st) == [r |-> r, stack |-> st]

op_num(st, n) == Ret("True", Append(st, encode_num(n)))

op_nop(st) == Ret("True", st)

op_dup(st) ==
    IF Len(st) < 1 THEN Ret("False", st)
    ELSE Ret("True", Append(st, Top(st)))

op_hash256(st) ==
    IF Len(st) < 1 THEN Ret("False", st)
    ELSE Ret("True", Append(Pop(st), hash256(Top(st))))

op_hash160(st) ==
    IF Len(st) < 1 THEN Ret("False", st)
    ELSE Ret("True", Append(Pop(st), hash160(Top(st))))

op_checksig(st, zz) ==
    IF Len(st) < 2 THEN Ret("False", st)
    ELSE LET sec_pubkey == Top(st)
             full == Top(Pop(st))
             der_signature == SubSeq(full, 1, Len(full) - 1)
             rest == Pop(Pop(st))
         IN  IF ~SecParses(sec_pubkey) \/ ~DerParses(der_signature)
             THEN Ret("False", rest)
             ELSE IF SigVerifies(sec_pubkey, zz, der_signature)
                  THEN Ret("True", Append(rest, encode_num(1)))
                  ELSE Ret("True", Append(rest, encode_num(0)))

op_add(st) ==
    IF Len(st) < 2 THEN Ret("False", st)
    ELSE LET element_1 == decode_num(Top(st))
             element_2 == decode_num(Top(Pop(st)))
         IN  Ret("True", Append(Pop(Pop(st)), encode_num(element_1 + element_2)))

op_equal(st) ==
    IF Len(st) < 2 THEN Ret("False", st)
    ELSE IF Top(st) = Top(Pop(st))
         THEN Ret("True", Append(Pop(Pop(st)), encode_num(1)))
         ELSE Ret("True", Append(Pop(Pop(st)), encode_num(0)))

op_verify(st) ==
    IF Len(st) < 1 THEN Ret("False", st)
    ELSE IF decode_num(Top(st)) = 0 THEN Ret("False", Pop(st))
         ELSE Ret("True", Pop(st))

op_return(st) == Ret("False", st)

op_2drop(st) ==
    IF Len(st) < 2 THEN Ret("False", st)
    ELSE Ret("True", Pop(Pop(st)))

op_2dup(st) ==
    IF Len(st) < 2 THEN Ret("False", st)
    ELSE Ret("True", st \o <<Top(Pop(st)), Top(st)>>)

op_3dup(st) ==
    IF Len(st) < 3 THEN Ret("False", st)
    ELSE Ret("True", st \o LastN(st, 3))

op_2over(st) ==
    IF Len(st) < 4 THEN Ret("False", st)
    ELSE Ret("True", st \o SubSeq(st, Len(st) - 3, Len(st) - 2))

op_2rot(st) ==
    IF Len(st) < 6 THEN Ret("False", st)
    ELSE Ret("True", ButLastN(st, 6) \o LastN(st, 4) \o SubSeq(st, Len(st) - 5, Len(st) - 4))

op_2swap(st) ==
    IF Len(st) < 4 THEN Ret("False", st)
    ELSE Ret("True", ButLastN(st, 4) \o LastN(st, 2) \o SubSeq(st, Len(st) - 3, Len(st) - 2))

op_ifdup(st) ==
    IF Len(st) < 1 THEN Ret("False", st)
    ELSE IF decode_num(Top(st)) # 0 THEN Ret("True", Append(st, Top(st)))
         ELSE Ret("True", st)

op_depth(st) == Ret("True", Append(st, encode_num(Len(st))))

op_drop(st) ==
    IF Len(st) < 1 THEN Ret("False", st)
    ELSE Ret("True", Pop(st))

op_nip(st) ==
    IF Len(st) < 2 THEN Ret("False", st)
    ELSE Ret("True", RemoveAt(st, Len(st) - 1))

op_over(st) ==
    IF Len(st) < 2 THEN Ret("False", st)
    ELSE Ret("True", Append(st, st[Len(st) - 1]))

op_pick(st) ==
    IF Len(st) < 1 THEN Ret("False", st)
    ELSE LET n == decode_num(Top(st))
             s1 == Pop(st)
             pos == PyPos(s1, -n - 1)
         IN  IF Len(s1) < n + 1 THEN Ret("False", s1)
             ELSE IF pos = 0 THEN Ret("IndexError", s1)
             ELSE Ret("True", Append(s1, s1[pos]))

\* op_roll has no return statement on its success path: it returns None.
op_roll(st) ==
    IF Len(st) < 1 THEN Ret("False", st)
    ELSE LET n == decode_num(Top(st))
             s1 == Pop(st)
             pos == PyPos(s1, -n - 1)
         IN  IF Len(s1) < n + 1 THEN Ret("False", s1)
             ELSE IF pos = 0 THEN Ret("IndexError", s1)
             ELSE Ret("None", Append(RemoveAt(s1, pos), s1[pos]))

op_rot(st) ==
    IF Len(st) < 3 THEN Ret("False", st)
    ELSE Ret("True", Append(RemoveAt(st, Len(st) - 2), st[Len(st) - 2]))

\* The two alt-stack opcodes return [r, stack, altstack].
op_toaltstack(st, alt) ==
    IF Len(st) < 1 THEN [r |-> "False", stack |-> st, altstack |-> alt]
    ELSE [r |-> "True", stack |-> Pop(st), altstack |-> Append(alt, Top(st))]

op_fromaltstack(st, alt) ==
    IF Len(st) < 1 THEN [r |-> "False", stack |-> st, altstack |-> alt]
    ELSE IF alt = <<>> THEN [r |-> "IndexError", stack |-> st, altstack |-> alt]
    ELSE [r |-> "True", stack |-> Append(st, Top(alt)), altstack |-> Pop(alt)]

(***************************************************************************)
(* src/op.py: op_if and op_notif.  Both return [r, stack, cmds].           *)
(***************************************************************************)
\* IfScan with every OP_ELSE switching arrays, whatever the nesting depth.
RECURSIVE IfScan_ElseAtAnyDepth(_, _, _, _, _)
IfScan_ElseAtAnyDepth(cs, if_cmds, else_cmds, in_else, num_endifs_needed) ==
    IF cs = <<>>
    THEN [found |-> FALSE, if_cmds |-> if_cmds, else_cmds |-> else_cmds, cmds |-> cs]
    ELSE LET cmd == cs[1]
             r == Tail(cs)
             kept_if == IF in_else THEN if_cmds ELSE Append(if_cmds, cmd)
             kept_else == IF in_else THEN Append(else_cmds, cmd) ELSE else_cmds
         IN  IF cmd.op \in {99, 100}
             THEN IfScan_ElseAtAnyDepth(r, kept_if, kept_else, in_else, num_endifs_needed + 1)
             ELSE IF cmd.op = 103
             THEN IfScan_ElseAtAnyDepth(r, if_cmds, else_cmds, TRUE, num_endifs_needed)
             ELSE IF cmd.op = 104
             THEN IF num_endifs_needed = 1
                  THEN [found |-> TRUE, if_cmds |-> if_cmds, else_cmds |-> else_cmds, cmds |-> r]
                  ELSE IfScan_ElseAtAnyDepth(r, kept_if, kept_else, in_else, num_endifs_needed - 1)
             ELSE IfScan_ElseAtAnyDepth(r, kept_if, kept_else, in_else, num_endifs_needed)

\* The scanning loop shared by op_if and op_notif: it removes commands from
\* the front of cs until the OP_ENDIF found with num_endifs_needed = 1, or to
\* exhaustion.  in_else tells which array current_array is.
RECURSIVE IfScan(_, _, _, _, _)
IfScan(cs, if_cmds, else_cmds, in_else, num_endifs_needed) ==
    IF cs = <<>>
    THEN [found |-> FALSE, if_cmds |-> if_cmds, else_cmds |-> else_cmds, cmds |-> cs]
    ELSE LET cmd == cs[1]
             r == Tail(cs)
             kept_if == IF in_else THEN if_cmds ELSE Append(if_cmds, cmd)
             kept_else == IF in_else THEN Append(else_cmds, cmd) ELSE else_cmds
         IN  IF cmd.op \in {99, 100}
             THEN IfScan(r, kept_if, kept_else, in_else, num_endifs_needed + 1)
             ELSE IF num_endifs_needed = 1 /\ cmd.op = 103
             THEN IfScan(r, if_cmds, else_cmds, TRUE, num_endifs_needed)
             ELSE IF cmd.op = 104
             THEN IF num_endifs_needed = 1
                  THEN [found |-> TRUE, if_cmds |-> if_cmds, else_cmds |-> else_cmds, cmds |-> r]
                  ELSE IfScan(r, kept_if, kept_else, in_else, num_endifs_needed - 1)
             ELSE IfScan(r, kept_if, kept_else, in_else, num_endifs_needed)

\* op_if popping the top element before it looks for the OP_ENDIF.
op_if_PopsBeforeScan(st, cs) ==
    IF Len(st) < 1 THEN [r |-> "False", stack |-> st, cmds |-> cs]
    ELSE LET scan == IfScan(cs, <<>>, <<>>, FALSE, 1)
         IN  IF ~scan.found THEN [r |-> "False", stack |-> Pop(st), cmds |-> scan.cmds]
             ELSE IF decode_num(Top(st)) = 0
             THEN [r |-> "True", stack |-> Pop(st), cmds |-> scan.else_cmds \o scan.cmds]
             ELSE [r |-> "True", stack |-> Pop(st), cmds |-> scan.if_cmds \o scan.cmds]

op_if(st, cs) ==
    IF Len(st) < 1 THEN [r |-> "False", stack |-> st, cmds |-> cs]
    ELSE LET scan == IfScan(cs, <<>>, <<>>, FALSE, 1)
         IN  IF ~scan.found THEN [r |-> "False", stack |-> st, cmds |-> scan.cmds]
             ELSE IF decode_num(Top(st)) = 0
             THEN [r |-> "True", stack |-> Pop(st), cmds |-> scan.else_cmds \o scan.cmds]
             ELSE [r |-> "True", stack |-> Pop(st), cmds |-> scan.if_cmds \o scan.cmds]

\* op_notif choosing its branch as op_if does.
op_notif_NotInverted(st, cs) ==
    IF Len(st) < 1 THEN [r |-> "False", stack |-> st, cmds |-> cs]
    ELSE LET scan == IfScan(cs, <<>>, <<>>, FALSE, 1)
         IN  IF ~scan.found THEN [r |-> "False", stack |-> st, cmds |-> scan.cmds]
             ELSE IF decode_num(Top(st)) = 0
             THEN [r |-> "True", stack |-> Pop(st), cmds |-> scan.else_cmds \o scan.cmds]
             ELSE [r |-> "True", stack |-> Pop(st), cmds |-> scan.if_cmds \o scan.cmds]

op_notif(st, cs) ==
    IF Len(st) < 1 THEN [r |-> "False", stack |-> st, cmds |-> cs]
    ELSE LET scan == IfScan(cs, <<>>, <<>>, FALSE, 1)
         IN  IF ~scan.found THEN [r |-> "False", stack |-> st, cmds |-> scan.cmds]
             ELSE IF decode_num(Top(st)) = 0
             THEN [r |-> "True", stack |-> Pop(st), cmds |-> scan.if_cmds \o scan.cmds]
             ELSE [r |-> "True", stack |-> Pop(st), cmds |-> scan.else_cmds \o scan.cmds]

(***************************************************************************)
(* src/op.py: OP_CODE_FUNCTIONS, and the dispatch of Script.evaluate.      *)
(***************************************************************************)
\* The keys of the OP_CODE_FUNCTIONS dictionary.
OP_CODE_FUNCTIONS ==
    {0, 79} \cup (81..97) \cup {99, 100} \cup (105..123) \cup
    {135, 147, 169, 170, 172, 176} \cup (179..185)

\* The opcodes whose function takes the stack alone.
StackOp(n, st) ==
    CASE n = 0 -> op_num(st, 0)
      [] n = 79 -> op_num(st, -1)
      [] n \in 81..96 -> op_num(st, n - 80)
      [] n = 97 \/ n = 176 \/ n \in 179..185 -> op_nop(st)
      [] n = 105 -> op_verify(st)
      [] n = 106 -> op_return(st)
      [] n = 109 -> op_2drop(st)
      [] n = 110 -> op_2dup(st)
      [] n = 111 -> op_3dup(st)
      [] n = 112 -> op_2over(st)
      [] n = 113 -> op_2rot(st)
      [] n = 114 -> op_2swap(st)
      [] n = 115 -> op_ifdup(st)
      [] n = 116 -> op_depth(st)
      [] n = 117 -> op_drop(st)
      [] n = 118 -> op_dup(st)
      [] n = 119 -> op_nip(st)
      [] n = 120 -> op_over(st)
      [] n = 121 -> op_pick(st)
      [] n = 122 -> op_roll(st)
      [] n = 123 -> op_rot(st)
      [] n = 135 -> op_equal(st)
      [] n = 147 -> op_add(st)
      [] n = 169 -> op_hash160(st)
      [] n = 170 -> op_hash256(st)

\* One state of the locals of Script.evaluate together with the value r of
\* the last operation call.
Locals(r, st, alt, cs) == [r |-> r, stack |-> st, altstack |-> alt, cmds |-> cs]

\* `operation = OP_CODE_FUNCTIONS[cmd]` and the call with the arguments the
\* opcode's branch of evaluate passes: what the call returns or raises, and
\* the stack, alt stack and command list it leaves.
Operation(n, st, alt, cs, zz) ==
    IF n \notin OP_CODE_FUNCTIONS THEN Locals("KeyError", st, alt, cs)
    ELSE IF n = 99 THEN LET o == op_if(st, cs) IN Locals(o.r, o.stack, alt, o.cmds)
    ELSE IF n = 100 THEN LET o == op_notif(st, cs) IN Locals(o.r, o.stack, alt, o.cmds)
    ELSE IF n = 107 THEN LET o == op_toaltstack(st, alt) IN Locals(o.r, o.stack, o.altstack, cs)
    ELSE IF n = 108 THEN LET o == op_fromaltstack(st, alt) IN Locals(o.r, o.stack, o.altstack, cs)
    ELSE IF n = 172 THEN LET o == op_checksig(st, zz) IN Locals(o.r, o.stack, alt, cs)
    ELSE LET o == StackOp(n, st) IN Locals(o.r, o.stack, alt, cs)

\* AfterOperation with the loop going on after a False.
AfterOperation_IgnoresFailure(r) ==
    IF r \in {"True", "False"} THEN "running"
    ELSE IF r = "None" THEN "False"
    ELSE "raise"

\* `if not operation(...): return False`: the value evaluate ends with after
\* an operation returned or raised r, "running" when the loop goes on.
AfterOperation(r) ==
    IF r = "True" THEN "running"
    ELSE IF r \in {"False", "None"} THEN "False"
    ELSE "raise"

(***************************************************************************)
(* src/script.py: Script.evaluate, the element branch with its three       *)
(* template rules.  Each rule maps the locals [r, stack, altstack, cmds]   *)
(* to the locals after it; r = "True" while evaluation goes on, "False"    *)
(* after `return False`, an exception name after a raise.                  *)
(***************************************************************************)
p2pkh_script(h160) == <<Op(118), Op(169), Push(h160), Op(136), Op(172)>>

\* `if len(stack) == 2 and stack[0] == b'' and len(stack[1]) == 32:`
P2wshRule(l, wit) ==
    IF ~(Len(l.stack) = 2 /\ l.stack[1] = <<>> /\ Len(l.stack[2]) = 32) THEN l
    ELSE LET s256 == l.stack[2]
             st == <<>>
         IN  IF ~wit.present THEN Locals("TypeError", st, l.altstack, l.cmds)
             ELSE LET items == wit.items
                      cs == l.cmds \o SubSeq(items, 1, Len(items) - 1)
                  IN  IF items = <<>> THEN Locals("IndexError", st, l.altstack, cs)
                      ELSE LET witness_script == items[Len(items)]
                           IN  IF IsInt(witness_script)
                               THEN Locals("TypeError", st, l.altstack, cs)
                               ELSE IF s256 # sha256(witness_script.data)
                               THEN Locals("False", st, l.altstack, cs)
                               ELSE LET parsed == ScriptParse(
                                            encode_varint(Len(witness_script.data))
                                                \o witness_script.data)
                                    IN  IF parsed.st # "ok"
                                        THEN Locals(parsed.st, st, l.altstack, cs)
                                        ELSE Locals("True", st, l.altstack, cs \o parsed.cmds)

\* `if len(stack) == 2 and stack[0] == b'' and len(stack[1]) == 20:`
P2wpkhRule(l, wit) ==
    IF l.r # "True" THEN l
    ELSE IF ~(Len(l.stack) = 2 /\ l.stack[1] = <<>> /\ Len(l.stack[2]) = 20) THEN l
    ELSE LET h160 == l.stack[2]
         IN  IF ~wit.present THEN Locals("TypeError", <<>>, l.altstack, l.cmds)
             ELSE Locals("True", <<>>, l.altstack, l.cmds \o wit.items \o p2pkh_script(h160))

\* `if len(cmds) == 3 and cmds[0] == 0xa9 and type(cmds[1]) == bytes and
\*  len(cmds[1]) == 20 and cmds[2] == 0x87:`; cmd is the element just pushed.
P2shRule(l, cmd) ==
    IF l.r # "True" THEN l
    ELSE IF ~(Len(l.cmds) = 3 /\ l.cmds[1] = Op(169) /\ IsBytes(l.cmds[2])
              /\ Len(l.cmds[2].data) = 20 /\ l.cmds[3] = Op(135)) THEN l
    ELSE With(op_hash160(l.stack), LAMBDA hashed :
         LET h160 == l.cmds[2].data
         IN  IF hashed.r # "True" THEN Locals("False", hashed.stack, l.altstack, <<>>)
             ELSE LET compared == op_equal(Append(hashed.stack, h160))
                  IN  IF compared.r # "True"
                      THEN Locals("False", compared.stack, l.altstack, <<>>)
                      ELSE LET verified == op_verify(compared.stack)
                           IN  IF verified.r # "True"
                               THEN Locals("False", verified.stack, l.altstack, <<>>)
                               ELSE LET parsed == ScriptParse(encode_varint(Len(cmd)) \o cmd)
                                    IN  IF parsed.st # "ok"
                                        THEN Locals(parsed.st, verified.stack, l.altstack, <<>>)
                                        ELSE Locals("True", verified.stack, l.altstack,
                                                    parsed.cmds))

\* The element branch: `stack.append(cmd)` and the three rules in order.
PushElement(cmd, st, alt, cs, wit) ==
    With(P2wshRule(Locals("True", Append(st, cmd), alt, cs), wit), LAMBDA p2wsh :
    With(P2wpkhRule(p2wsh, wit), LAMBDA p2wpkh : P2shRule(p2wpkh, cmd)))

(***************************************************************************)
(* Script.evaluate as a state machine: the call, one action per iteration  *)
(* of the while loop, and the checks after the loop.                       *)
(***************************************************************************)
\* evaluate is entered: `cmds = self.cmds.copy(); stack = []; altstack = []`.
EvalCall ==
    /\ result = "idle"
    /\ cmds' = self_cmds
    /\ stack' = <<>>
    /\ altstack' = <<>>
    /\ result' = "running"
    /\ UNCHANGED <<codecVars, txVars, witness, z, last, numVars, restVars>>

\* The locals after one iteration of `while len(cmds) > 0:` that starts from
\* the locals (st, alt, cs).
Iteration(st, alt, cs, wit, zz) ==
    LET cmd == cs[1]
        rest == Tail(cs)
    IN  IF IsInt(cmd) THEN Operation(cmd.op, st, alt, rest, zz)
        ELSE PushElement(cmd.data, st, alt, rest, wit)

\* An iteration of a loop that runs on self.cmds itself, not on a copy.
Step_NoCopy ==
    /\ result = "running"
    /\ Len(cmds) > 0
    /\ LET l == Iteration(stack, altstack, cmds, witness, z)
       IN  /\ stack' = l.stack
           /\ altstack' = l.altstack
           /\ cmds' = l.cmds
           /\ self_cmds' = l.cmds
           /\ last' = IF IsInt(cmds[1]) THEN l.r ELSE "push"
           /\ result' = AfterOperation(l.r)
    /\ UNCHANGED <<phase, stream, parse_out, ser_out, txVars, witness, z, numVars, restVars>>

Step ==
    /\ result = "running"
    /\ Len(cmds) > 0
    /\ LET l == Iteration(stack, altstack, cmds, witness, z)
       IN  /\ stack' = l.stack
           /\ altstack' = l.altstack
           /\ cmds' = l.cmds
           /\ last' = IF IsInt(cmds[1]) THEN l.r ELSE "push"
           /\ result' = AfterOperation(l.r)
    /\ UNCHANGED <<codecVars, txVars, witness, z, numVars, restVars>>

\* The value evaluate returns once the loop has emptied cmds, from stack st.
FinalResult(st) ==
    IF Len(st) = 0 THEN "False"
    ELSE IF Top(st) = <<>> THEN "False"
    ELSE "True"

Finish ==
    /\ result = "running"
    /\ Len(cmds) = 0
    /\ result' = FinalResult(stack)
    /\ stack' = IF Len(stack) = 0 THEN stack ELSE Pop(stack)
    /\ UNCHANGED <<codecVars, txVars, cmds, altstack, witness, z, last, numVars, restVars>>

EvalNext == EvalCall \/ Step \/ Finish

NoWitness == [present |-> FALSE, items |-> <<>>]
Witness(items) == [present |-> TRUE, items |-> items]

\* The codec variables while a Script built by the caller is evaluated.
CodecIdle(script) ==
    /\ phase = "eval"
    /\ stream = <<>>
    /\ self_cmds = script
    /\ parse_out = [st |-> "none", cmds |-> <<>>]
    /\ ser_out = [st |-> "none", bytes |-> <<>>]

\* The transaction variables while no transaction is at hand.
TxIdle ==
    /\ tx = <<>>
    /\ cache = <<>>
    /\ tx_phase = "none"
    /\ outcome = <<>>

\* The number codec variables while no number is encoded.
NumIdle ==
    /\ num_phase = "none"
    /\ number = 0
    /\ encoded = <<>>
    /\ decoded = 0

\* The state before evaluate is called on one of `scripts` with one of `wits`.
EvalInit(scripts, wits) ==
    /\ \E s \in scripts : CodecIdle(s)
    /\ TxIdle
    /\ NumIdle
    /\ RestIdle
    /\ witness \in wits
    /\ z = 1
    /\ cmds = <<>>
    /\ stack = <<>>
    /\ altstack = <<>>
    /\ result = "idle"
    /\ last = "none"

(***************************************************************************)
(* Spec: evaluate on every script of at most MaxEvalLen commands over a    *)
(* small command alphabet, without a witness.                              *)
(***************************************************************************)
EvalOpcodes == {0, 81, 99, 100, 103, 104, 105, 106, 108, 118, 122, 136}
EvalElements == {<<>>, <<0>>, <<128>>}
EvalAlphabet == {Op(n) : n \in EvalOpcodes} \cup {Push(d) : d \in EvalElements}
EvalScripts == SeqsUpTo(EvalAlphabet, MaxEvalLen)

Init == EvalInit(EvalScripts, {NoWitness})
Next == EvalNext
Spec == Init /\ [][Next]_vars

(***************************************************************************)
(* SpecCodec: Script.parse and Script.serialize applied to byte streams    *)
(* and to Script objects, each followed by the inverse call.               *)
(*   "wire"   --parse-->     "parsed"     --serialize--> "reserialized"    *)
(*   "script" --serialize--> "serialized" --parse-->     "reparsed"        *)
(***************************************************************************)
\* Script.parse(BytesIO(...)) on the given stream, or on the bytes serialize
\* returned.
ParseCall ==
    /\ \/ /\ phase = "wire"
          /\ parse_out' = ScriptParse(stream)
          /\ phase' = "parsed"
       \/ /\ phase = "serialized"
          /\ ser_out.st = "ok"
          /\ parse_out' = ScriptParse(ser_out.bytes)
          /\ phase' = "reparsed"
    /\ UNCHANGED <<stream, self_cmds, ser_out, evalVars, txVars, numVars, restVars>>

\* serialize() on the given Script, or on the Script parse returned.
SerializeCall ==
    /\ \/ /\ phase = "script"
          /\ ser_out' = serialize(self_cmds)
          /\ phase' = "serialized"
       \/ /\ phase = "parsed"
          /\ parse_out.st = "ok"
          /\ ser_out' = serialize(parse_out.cmds)
          /\ phase' = "reserialized"
    /\ UNCHANGED <<stream, self_cmds, parse_out, evalVars, txVars, numVars, restVars>>

\* The three push encodings of an element d, and a script body framed by its
\* length.
DirectPush(d) == <<Len(d)>> \o d
PushData1(d) == <<76, Len(d)>> \o d
PushData2(d) == <<77, Len(d) % 256, Len(d) \div 256>> \o d
Framed(body) == encode_varint(Len(body)) \o body

\* Byte streams handed to parse: every stream of at most MaxWire bytes over
\* WireBytes, and framed pushes at the boundaries of the push forms, whole,
\* cut one byte short, and with a declared length off by one.
WireBytes == {0, 1, 2, 3, 76, 77, 118}
BoundaryBodies ==
    {DirectPush(Fill(75)), PushData1(Fill(75)), PushData1(Fill(76)),
     PushData1(Fill(255)), PushData2(Fill(255)), PushData2(Fill(256)),
     PushData2(Fill(520)), PushData2(Fill(3))}
BoundaryWires ==
    {Framed(b) : b \in BoundaryBodies}
        \cup {SubSeq(Framed(b), 1, Len(Framed(b)) - 1) : b \in BoundaryBodies}
        \cup {encode_varint(Len(b) + 1) \o b : b \in BoundaryBodies}
        \cup {encode_varint(Len(b) - 1) \o b : b \in BoundaryBodies}
WireInputs == SeqsUpTo(WireBytes, MaxWire) \cup BoundaryWires

\* Script objects handed to serialize: at most MaxScriptLen commands, opcodes
\* and elements at the boundaries of the push forms.
CodecOpcodes == {0, 1, 75, 76, 77, 78, 79, 118, 255}
CodecElementLens == {0, 1, 75, 76, 255, 256, 520, 521}
CodecAlphabet == {Op(n) : n \in CodecOpcodes} \cup {Push(Fill(n)) : n \in CodecElementLens}
ScriptInputs == SeqsUpTo(CodecAlphabet, MaxScriptLen)

\* The evaluation variables while no evaluation runs.
EvalIdle ==
    /\ witness = NoWitness
    /\ z = 1
    /\ cmds = <<>>
    /\ stack = <<>>
    /\ altstack = <<>>
    /\ result = "idle"
    /\ last = "none"

InitCodec ==
    /\ \/ phase = "wire" /\ stream \in WireInputs /\ self_cmds = <<>>
       \/ phase = "script" /\ stream = <<>> /\ self_cmds \in ScriptInputs
    /\ parse_out = [st |-> "none", cmds |-> <<>>]
    /\ ser_out = [st |-> "none", bytes |-> <<>>]
    /\ EvalIdle
    /\ TxIdle
    /\ NumIdle
    /\ RestIdle
NextCodec == ParseCall \/ SerializeCall
SpecCodec == InitCodec /\ [][NextCodec]_vars

(***************************************************************************)
(* Properties of the codec (checked under SpecCodec).                      *)
(***************************************************************************)
\* body is a concatenation of whole command encodings: every push has its
\* length bytes and all of its announced bytes inside body.
RECURSIVE CompleteCommands(_)
CompleteCommands(body) ==
    IF body = <<>> THEN TRUE
    ELSE LET b == body[1]
             n == Len(body)
         IN  IF b >= 1 /\ b <= 75
             THEN n >= 1 + b /\ CompleteCommands(SubSeq(body, 2 + b, n))
             ELSE IF b = 76
             THEN n >= 2 /\ n >= 2 + body[2]
                  /\ CompleteCommands(SubSeq(body, 3 + body[2], n))
             ELSE IF b = 77
             THEN n >= 3 /\ n >= 3 + body[2] + 256 * body[3]
                  /\ CompleteCommands(SubSeq(body, 4 + body[2] + 256 * body[3], n))
             ELSE CompleteCommands(SubSeq(body, 2, n))

\* The stream holds a length and, after it, at least that many bytes, which
\* are whole commands.
DeclaredBodyPresent(b) ==
    /\ b # <<>>
    /\ LET v == read_varint(b)
       IN  /\ Len(v.rest) >= v.val
           /\ CompleteCommands(SubSeq(v.rest, 1, v.val))

\* b is exactly one script encoding: a length and commands that consume
\* exactly that many bytes.
WellFormedEncoding(b) ==
    /\ DeclaredBodyPresent(b)
    /\ Len(read_varint(b).rest) = read_varint(b).val

\* C1: for every well-formed script encoding b, parse then serialize returns
\* b byte for byte (also when b uses OP_PUSHDATA1 or OP_PUSHDATA2 for an
\* element short enough for a smaller push form).
C1_SerializeParseIsIdentity ==
    /\ (phase = "parsed" /\ WellFormedEncoding(stream)) => parse_out.st = "ok"
    /\ (phase = "reserialized" /\ WellFormedEncoding(stream))
            => (ser_out.st = "ok" /\ ser_out.bytes = stream)

\* A Script of the data model: opcodes 0..255 and elements of 0..520 bytes.
ValidCommand(c) == IF IsInt(c) THEN c.op \in 0..255 ELSE Len(c.data) <= 520
ValidScript(cs) == \A i \in 1..Len(cs) : ValidCommand(cs[i])

\* C2 as stated: for every Script of opcodes 0-255 and pushes of 0-520 bytes,
\* parse(serialize(s)) has the same command sequence as s, a zero-length push
\* and the opcode values 1-78 included.
C2_ParseSerializeIsIdentity ==
    /\ (phase = "serialized" /\ ValidScript(self_cmds)) => ser_out.st = "ok"
    /\ (phase = "reparsed" /\ ValidScript(self_cmds))
            => (parse_out.st = "ok" /\ parse_out.cmds = self_cmds)

\* The commands whose encoding parse reads back as the same command: opcode 0
\* and the opcodes 78..255 (the bytes 1..77 announce a push), and elements of
\* 1..520 bytes (an empty element is written as the byte of opcode 0).
ReadsBackCommand(c) ==
    IF IsInt(c) THEN c.op = 0 \/ c.op \in 78..255
    ELSE Len(c.data) >= 1 /\ Len(c.data) <= 520
ReadsBackScript(cs) == \A i \in 1..Len(cs) : ReadsBackCommand(cs[i])

\* C2 amended: for every Script whose commands are opcode 0, opcodes 78-255 or
\* data pushes of 1-520 bytes, serialize succeeds and parse(serialize(s)) has
\* exactly the command sequence of s.
C2_ParseSerializeReadsBack ==
    /\ (phase = "serialized" /\ ReadsBackScript(self_cmds)) => ser_out.st = "ok"
    /\ (phase = "reparsed" /\ ReadsBackScript(self_cmds))
            => (parse_out.st = "ok" /\ parse_out.cmds = self_cmds)

C2_Witness ==
    /\ phase = "reparsed"
    /\ self_cmds = <<Push(Fill(256)), Op(78)>>
    /\ parse_out.cmds = self_cmds

\* The push form the length of an element calls for.
PushFormFor(d) ==
    IF Len(d) <= 75 THEN DirectPush(d)
    ELSE IF Len(d) <= 255 THEN PushData1(d)
    ELSE PushData2(d)

RECURSIVE ExpectedBody(_)
ExpectedBody(cs) ==
    IF cs = <<>> THEN <<>>
    ELSE (IF IsInt(cs[1]) THEN <<cs[1].op>> ELSE PushFormFor(cs[1].data))
             \o ExpectedBody(Tail(cs))

\* C3: serialization writes an element of at most 75 bytes after a single
\* length byte, one of 76..255 bytes after OP_PUSHDATA1 and a 1-byte length,
\* one of 256..520 bytes after OP_PUSHDATA2 and a 2-byte little-endian length,
\* and fails with an error when an element has 521 bytes or more.
C3_PushFormByLength ==
    phase = "serialized" =>
        IF \E i \in 1..Len(self_cmds) : IsBytes(self_cmds[i]) /\ Len(self_cmds[i].data) >= 521
        THEN ser_out.st = "ValueError"
        ELSE ser_out.st = "ok" /\ ser_out.bytes = Framed(ExpectedBody(self_cmds))

C3_Witness ==
    /\ phase = "serialized"
    /\ self_cmds = <<Push(Fill(75)), Push(Fill(256))>>
    /\ ser_out.st = "ok"
    /\ SubSeq(ser_out.bytes, 1, 3) = <<253, 79, 1>>
    /\ ser_out.bytes[4] = 75
    /\ SubSeq(ser_out.bytes, 80, 82) = <<77, 0, 1>>

\* C4: parse fails whenever the declared length is not met exactly by whole
\* commands: a push that runs past the declared length, a stream that ends
\* before the declared length, a push whose bytes are not all present.  (Any
\* failure is accepted here as the format error.)
C4_ParseRejectsLengthMismatch ==
    (phase = "parsed" /\ ~DeclaredBodyPresent(stream)) => parse_out.st # "ok"

(***************************************************************************)
(* Properties of Script.evaluate (checked under Spec).                     *)
(***************************************************************************)
Returned == result \in {"True", "False", "raise"}

\* C5: when the command stream is exhausted without an opcode failure,
\* evaluate returns True if and only if the stack is non-empty and its top
\* element decodes to a non-zero integer (negative zero and zero-padded
\* elements give False).
C5_TrueIffTopDecodesNonZero ==
    [][(result = "running" /\ cmds = <<>>)
        => (result' = "True" <=> (stack # <<>> /\ decode_num(Top(stack)) # 0))]_vars

\* C6: every step of an evaluation is taken while it has not returned, and a
\* step whose operation reports failure makes evaluate return False: nothing
\* runs after the failure and the result stays False.
C6_FailureReturnsFalse ==
    [][/\ ~Returned
       /\ (last' = "False" => result' = "False")]_vars

C6_Witness ==
    /\ self_cmds = <<Op(0), Op(105), Op(81)>>
    /\ last = "False"
    /\ result = "False"
    /\ cmds = <<Op(81)>>

\* C7: for every command stream of opcode bytes and data pushes evaluate ends
\* with a boolean; no step ends in a dispatch-lookup failure or another
\* exception.
C7_NeverRaises == result # "raise"

\* The number of positions i <= n of cs that hold one of the opcodes in ops.
RECURSIVE CountOps(_, _, _)
CountOps(cs, n, ops) ==
    IF n = 0 THEN 0
    ELSE CountOps(cs, n - 1, ops) + (IF cs[n].op \in ops THEN 1 ELSE 0)

\* cs, the stream after an OP_IF / OP_NOTIF, holds the OP_ENDIF that closes
\* it: an OP_ENDIF before which every OP_IF / OP_NOTIF has been closed.
HasMatchingEndif(cs) ==
    \E k \in 1..Len(cs) :
        /\ cs[k].op = 104
        /\ CountOps(cs, k - 1, {99, 100}) = CountOps(cs, k - 1, {104})

\* The script cs has an OP_IF / OP_NOTIF that no OP_ENDIF of cs closes at its
\* nesting level.
HasUnmatchedIf(cs) ==
    \E p \in 1..Len(cs) :
        /\ cs[p].op \in {99, 100}
        /\ ~HasMatchingEndif(SubSeq(cs, p + 1, Len(cs)))

\* What op_if and op_notif do by themselves: when evaluate dispatches an
\* OP_IF or OP_NOTIF and the stream that remains at that moment holds no
\* matching OP_ENDIF, the opcode reports failure in that one step, with the
\* stream exhausted, and evaluate returns False.
DispatchedUnmatchedIfFails ==
    [][(result = "running" /\ cmds # <<>> /\ cmds[1].op \in {99, 100}
            /\ ~HasMatchingEndif(Tail(cmds)))
        => (last' = "False" /\ result' = "False"
            /\ (stack # <<>> => cmds' = <<>>))]_vars

(***************************************************************************)
(* SpecIf: evaluate on properly nested IF / ELSE / ENDIF blocks of depth   *)
(* two.  A block is described by a tree; every leaf command pushes a       *)
(* number of its own, so the final stack lists the commands that ran.      *)
(***************************************************************************)
\* An inner block: absent (on = FALSE), or <v> <k> leaf [OP_ELSE leaf] OP_ENDIF.
NoInner == [on |-> FALSE, v |-> 0, k |-> 99, else |-> FALSE]
InnerBlocks == {NoInner} \cup [on : {TRUE}, v : {0, 1}, k : {99, 100}, else : BOOLEAN]
\* An outer block with leaves around the inner blocks of its two branches.
OuterBlocks == [v : {0, 1}, k : {99, 100}, then : InnerBlocks,
                hasElse : BOOLEAN, else : InnerBlocks]

NumOp(v) == IF v = 0 THEN Op(0) ELSE Op(80 + v)

FlatInner(b, leafThen, leafElse) ==
    IF ~b.on THEN <<>>
    ELSE <<NumOp(b.v), Op(b.k), NumOp(leafThen)>>
            \o (IF b.else THEN <<Op(103), NumOp(leafElse)>> ELSE <<>>)
            \o <<Op(104)>>

FlatOuter(o) ==
    <<NumOp(o.v), Op(o.k), NumOp(2)>> \o FlatInner(o.then, 3, 4) \o <<NumOp(5)>>
        \o (IF o.hasElse THEN <<Op(103), NumOp(6)>> \o FlatInner(o.else, 7, 8) \o <<NumOp(9)>>
            ELSE <<>>)
        \o <<Op(104), NumOp(10)>>

\* OP_IF runs its first branch on a non-zero value, OP_NOTIF on zero.
FirstBranch(v, k) == (k = 99) = (v # 0)

RanInner(b, leafThen, leafElse) ==
    IF ~b.on THEN <<>>
    ELSE IF FirstBranch(b.v, b.k) THEN <<<<leafThen>>>>
    ELSE IF b.else THEN <<<<leafElse>>>>
    ELSE <<>>

\* The numbers pushed by the commands of the selected branches, in order.
RanOuter(o) ==
    (IF FirstBranch(o.v, o.k) THEN <<<<2>>>> \o RanInner(o.then, 3, 4) \o <<<<5>>>>
     ELSE IF o.hasElse THEN <<<<6>>>> \o RanInner(o.else, 7, 8) \o <<<<9>>>>
     ELSE <<>>)
        \o <<<<10>>>>

\* OP_1 OP_IF OP_1 OP_IF OP_2 OP_ELSE OP_3 OP_ENDIF OP_ELSE OP_4 OP_ENDIF
NestedExample ==
    <<Op(81), Op(99), Op(81), Op(99), Op(82), Op(103), Op(83), Op(104),
      Op(103), Op(84), Op(104)>>

IfScripts == {FlatOuter(o) : o \in OuterBlocks} \cup {NestedExample}

InitIf == EvalInit(IfScripts, {NoWitness})
SpecIf == InitIf /\ [][EvalNext]_vars

\* C10: for properly nested IF/ELSE/ENDIF blocks evaluation runs, at every
\* level, exactly the commands of the branch selected by the value popped at
\* that level: no step fails, and when the stream is exhausted the stack holds
\* the pushes of the selected branches and nothing else; the nested example
\* ends with the encoding of 2 on top and returns True.
C10_SelectedBranchesRun ==
    /\ result \in {"idle", "running", "True"}
    /\ (result = "running" /\ cmds = <<>>) =>
          /\ \A o \in OuterBlocks : self_cmds = FlatOuter(o) => stack = RanOuter(o)
          /\ self_cmds = NestedExample => stack = <<encode_num(2)>>

C10_Witness ==
    /\ self_cmds = NestedExample
    /\ result = "True"
    /\ stack = <<>>

(***************************************************************************)
(* SpecWitness: evaluate on the two witness-program scripts with witnesses *)
(* of at most MaxWitness items; SpecWitnessFair adds that an evaluation    *)
(* that can take a step does take it (the loop runs without suspension).   *)
(***************************************************************************)
MaxWitness == 3

Hash20 == Hash160Of27
WitnessItems == {Op(0), Push(<<>>), Push(<<97>>), Push(sha256(<<>>)), Push(Hash20)}
Witnesses == {NoWitness} \cup {Witness(w) : w \in SeqsUpTo(WitnessItems, MaxWitness)}
WitnessScripts ==
    {<<Op(0), Push(sha256(<<>>))>>,
     <<Op(0), Push(Hash20)>>,
     <<Push(<<1>>), Op(0), Push(Hash20)>>,
     <<Push(<<1>>), Push(Hash20)>>,
     <<Op(0), Push(Take(Hash20, 19))>>}

InitWitness == EvalInit(WitnessScripts, Witnesses)
SpecWitness == InitWitness /\ [][EvalNext]_vars
SpecWitnessFair == SpecWitness /\ WF_vars(EvalNext)

\* C8: evaluate terminates for every finite script and every finite witness:
\* every evaluation comes to its end after finitely many steps.
C8_EvaluateTerminates == <>Returned

(***************************************************************************)
(* SpecOps: evaluate on scripts that push a stack and then run one or two  *)
(* opcodes of the library: the stack-shuffling opcodes on every stack of   *)
(* at most MaxStack elements and on deeper stacks, OP_IF / OP_NOTIF on     *)
(* every remaining stream of at most MaxIfBody commands, and OP_CHECKSIG   *)
(* on well-formed and malformed keys and signatures.                       *)
(***************************************************************************)
MaxStack == 3       \* deepest exhaustively enumerated stack
MaxIfBody == 4      \* most commands after an OP_IF / OP_NOTIF

\* The encodings of 0, 1, 2 and -1.
OpElements == {<<>>, <<1>>, <<2>>, <<129>>}
\* The stack [1, 2, .., k] of the tests of op.py.
Deep(k) == [i \in 1..k |-> <<i>>]
DeepStacks == {Deep(k) : k \in 4..7} \cup {Append(Deep(4), <<3>>)}
OpStacks == SeqsUpTo(OpElements, MaxStack) \cup DeepStacks

\* OP_TOALTSTACK .. OP_ROT without OP_DEPTH: the opcodes that read the stack.
ShuffleOpcodes == (107..123) \ {116}
OpTails ==
    {<<Op(n)>> : n \in ShuffleOpcodes}
        \cup {<<Op(107), Op(n)>> : n \in ShuffleOpcodes}
        \cup {<<Op(n), Op(81)>> : n \in ShuffleOpcodes}

\* The script that pushes the elements of st, in order.
PushAll(st) == [i \in 1..Len(st) |-> Push(st[i])]

ShuffleScripts == {PushAll(st) \o t : st \in OpStacks, t \in OpTails}

IfBodyAlphabet == {Op(81), Op(99), Op(103), Op(104)}
IfStacks == {<<>>, <<<<>>>>, <<<<1>>>>, <<<<128>>>>}
IfTailScripts ==
    {PushAll(st) \o <<Op(k)>> \o body :
        st \in IfStacks, k \in {99, 100}, body \in SeqsUpTo(IfBodyAlphabet, MaxIfBody)}

\* Keys and signatures (with the hash type byte) as OP_CHECKSIG finds them:
\* <<2, 7>> is a key, <<48, 8>> its signature over z = 1, <<48, 9>> a
\* well-formed signature that does not verify; the others are malformed.
KeyElements == {<<2, 7>>, <<5, 7>>, <<>>}
SigElements == {<<48, 8, 1>>, <<48, 9, 1>>, <<49, 8, 1>>, <<>>}
ChecksigScripts ==
    {<<Push(sig), Push(pk), Op(172), Op(81)>> : sig \in SigElements, pk \in KeyElements}

OpScripts == ShuffleScripts \cup IfTailScripts \cup ChecksigScripts

InitOps == EvalInit(OpScripts, {NoWitness})
SpecOps == InitOps /\ [][EvalNext]_vars

(***************************************************************************)
(* SpecBalance: evaluate on scripts that push a stack and then reach an    *)
(* OP_IF / OP_NOTIF which no OP_ENDIF of the script closes at its nesting  *)
(* level: such a script alone (the witness absent), and behind the two     *)
(* commands of a pay-to-witness-script-hash program, with a witness of one *)
(* item, the witness script.                                               *)
(***************************************************************************)
MaxBalanceBody == 2     \* most commands after the unmatched OP_IF / OP_NOTIF

\* The witness scripts OP_1 OP_ENDIF OP_1, OP_ENDIF and OP_1, serialized.
BalanceWitnessScripts == {<<81, 104, 81>>, <<104>>, <<81>>}

UnmatchedTails ==
    {<<Op(k)>> \o body :
        k \in {99, 100},
        body \in {b \in SeqsUpTo(IfBodyAlphabet, MaxBalanceBody) : ~HasMatchingEndif(b)}}
UnmatchedScripts == {PushAll(st) \o t : st \in IfStacks, t \in UnmatchedTails}
ProgramScripts ==
    {<<Op(0), Push(sha256(ws))>> \o s : ws \in BalanceWitnessScripts, s \in UnmatchedScripts}
WitnessScriptLists == {Witness(<<Push(ws)>>) : ws \in BalanceWitnessScripts}

InitBalance ==
    /\ EvalInit(UnmatchedScripts \cup ProgramScripts, {NoWitness} \cup WitnessScriptLists)
    /\ witness.present <=> self_cmds \in ProgramScripts
SpecBalance == InitBalance /\ [][EvalNext]_vars

\* C9: a script in which an OP_IF or OP_NOTIF has no matching OP_ENDIF at
\* its nesting level fails evaluation: whenever the evaluation of such a
\* script has ended, Script.evaluate has returned False.
C9_UnmatchedIfFails ==
    HasUnmatchedIf(self_cmds) => result \in {"idle", "running", "False"}

\* The loop of evaluate is about to dispatch opcode n.
Dispatches(n) == result = "running" /\ cmds # <<>> /\ cmds[1].op = n

\* st with its top element replaced by one of the other truth value.
FlipTop(st) == Append(Pop(st), IF decode_num(Top(st)) = 0 THEN <<1>> ELSE <<>>)

\* C11: OP_NOTIF is OP_IF with the branch choice inverted.  Whenever evaluate
\* dispatches one of the two, the step reports what the other opcode reports
\* on the same stack and stream, and on success it leaves the stack and the
\* stream that the other opcode leaves when the top element has the other
\* truth value.
C11_NotifMirrorsIf ==
    [][(Dispatches(99) \/ Dispatches(100)) =>
         LET cs == Tail(cmds)
             other == IF cmds[1].op = 100 THEN op_if(stack, cs) ELSE op_notif(stack, cs)
         IN  /\ last' = other.r
             /\ last' = "True" =>
                  LET mirror == IF cmds[1].op = 100 THEN op_if(FlipTop(stack), cs)
                                ELSE op_notif(FlipTop(stack), cs)
                  IN  /\ mirror.r = "True"
                      /\ stack' = mirror.stack
                      /\ cmds' = mirror.cmds]_vars

\* <0> OP_NOTIF OP_1 OP_ELSE OP_1 OP_ENDIF: OP_NOTIF selected the first branch.
C11_Witness ==
    /\ self_cmds = <<Push(<<>>), Op(100), Op(81), Op(103), Op(81), Op(104)>>
    /\ last = "True"
    /\ stack = <<>>
    /\ cmds = <<Op(81)>>

\* The encoding of the key, or of the signature without its hash type byte,
\* on top of st is rejected by the Signature Capability.
MalformedSignatureInput(st) ==
    LET full == Top(Pop(st))
    IN  ~SecParses(Top(st)) \/ ~DerParses(SubSeq(full, 1, Len(full) - 1))

\* C12: OP_CHECKSIG on a malformed key or signature pushes 0 and reports
\* success, and evaluation continues with the following commands.
C12_MalformedChecksigPushesZero ==
    [][(Dispatches(172) /\ Len(stack) >= 2 /\ MalformedSignatureInput(stack)) =>
         /\ last' = "True"
         /\ stack' = Append(Pop(Pop(stack)), <<>>)
         /\ result' = "running"]_vars

\* The index on top of st is one PICK / ROLL accept: it decodes to a
\* non-negative number smaller than the number of elements below it.
ValidIndex(st) ==
    LET n == decode_num(Top(st))
    IN  n >= 0 /\ n < Len(st) - 1

\* The number of elements a stack-shuffling opcode requires.
Required(n) ==
    CASE n \in {107, 108, 115, 117, 118, 121, 122} -> 1
      [] n \in {109, 110, 119, 120} -> 2
      [] n \in {111, 123} -> 3
      [] n \in {112, 114} -> 4
      [] n = 113 -> 6

\* The stack opcode n reads from holds fewer elements than n requires.
TooFew(n, st, alt) ==
    IF n = 108 THEN Len(alt) < Required(n)
    ELSE IF n \in {121, 122} THEN Len(st) < Required(n) \/ ~ValidIndex(st)
    ELSE Len(st) < Required(n)

\* C13: every stack-shuffling opcode reports failure, without raising, when
\* the stack it reads from holds fewer elements than it requires, and reports
\* success otherwise.
C13_ShuffleFailsOnShortStack ==
    [][(result = "running" /\ cmds # <<>> /\ cmds[1].op \in ShuffleOpcodes) =>
         /\ last' \in {"True", "False"}
         /\ (last' = "False") = TooFew(cmds[1].op, stack, altstack)]_vars

\* C14: OP_TOALTSTACK moves the top of the main stack onto the alt stack;
\* OP_FROMALTSTACK fails exactly when the alt stack is empty, whatever the
\* main stack holds, and otherwise moves the top of the alt stack onto the
\* main stack.
C14_AltStackMoves ==
    [][/\ (Dispatches(107) /\ stack # <<>>) =>
            /\ last' = "True"
            /\ stack' = Pop(stack)
            /\ altstack' = Append(altstack, Top(stack))
       /\ Dispatches(108) =>
            /\ (last' = "False") = (altstack = <<>>)
            /\ altstack # <<>> =>
                 /\ last' = "True"
                 /\ stack' = Append(stack, Top(altstack))
                 /\ altstack' = Pop(altstack)]_vars

\* C15: OP_PICK and OP_ROLL fail unless the index they pop is valid, a
\* negative index included; for a valid index n OP_PICK copies the item n
\* back from the top onto the top.
C15_PickRollRejectInvalidIndex ==
    [][((Dispatches(121) \/ Dispatches(122)) /\ stack # <<>>) =>
         LET n == decode_num(Top(stack))
             rest == Pop(stack)
         IN  /\ ~ValidIndex(stack) => (last' = "False" /\ result' = "False")
             /\ (ValidIndex(stack) /\ cmds[1].op = 121) =>
                  /\ last' = "True"
                  /\ stack' = Append(rest, rest[Len(rest) - n])]_vars

\* C16: for a valid index n OP_ROLL moves the item n back from the top onto
\* the top, keeps the order of the other items and reports success, so
\* evaluation continues with the next command.
C16_RollMovesAndSucceeds ==
    [][(Dispatches(122) /\ stack # <<>> /\ ValidIndex(stack)) =>
         LET n == decode_num(Top(stack))
             rest == Pop(stack)
         IN  /\ stack' = Append(RemoveAt(rest, Len(rest) - n), rest[Len(rest) - n])
             /\ last' = "True"
             /\ result' = "running"]_vars

(***************************************************************************)
(* src/tx.py: transactions.  A Tx is a record of its attributes; a TxIn    *)
(* carries script_sig as [present, cmds] (present = FALSE is None) and its *)
(* witness attribute as has_witness / witness (the attribute exists only   *)
(* once parse_segwit or the caller has set it).  Input indices are         *)
(* 1-based here: input_index i of the model is index i - 1 of the source.  *)
(***************************************************************************)
SIGHASH_ALL == 1

\* b[::-1]
Reverse(b) == [i \in 1..Len(b) |-> b[Len(b) + 1 - i]]

NoScript == [present |-> FALSE, cmds |-> <<>>]
SomeScript(cs) == [present |-> TRUE, cmds |-> cs]

\* A memoized hash that has not been computed (None), and one that has.
NoHash == [set |-> FALSE, val |-> <<>>]
SomeHash(h) == [set |-> TRUE, val |-> h]

TxIn(prev_tx, prev_index, script_sig, sequence) ==
    [prev_tx |-> prev_tx, prev_index |-> prev_index, script_sig |-> script_sig,
     sequence |-> sequence, has_witness |-> FALSE, witness |-> <<>>]

TxOut(amount, script_pubkey) == [amount |-> amount, script_pubkey |-> script_pubkey]

Tx(version, tx_inputs, tx_outputs, locktime, testnet, segwit) ==
    [version |-> version, tx_inputs |-> tx_inputs, tx_outputs |-> tx_outputs,
     locktime |-> locktime, testnet |-> testnet, segwit |-> segwit,
     _hash_prevouts |-> NoHash, _hash_sequence |-> NoHash, _hash_outputs |-> NoHash]

\* The previous index 0xffffffff, which the signed 32-bit integers of the
\* model cannot hold, and the four bytes of a previous index.
NoIndex == -1
IndexBytes(prev_index) ==
    IF prev_index = NoIndex THEN Ok(<<255, 255, 255, 255>>)
    ELSE int_to_little_endian(prev_index, 4)

\* TxIn.serialize: [st, bytes].
TxIn_serialize(tx_in) ==
    LET script_sig == IF ~tx_in.script_sig.present THEN [st |-> "ok", bytes |-> <<0>>]
                      ELSE serialize(tx_in.script_sig.cmds)
    IN  Join(<<Ok(Reverse(tx_in.prev_tx)), IndexBytes(tx_in.prev_index), script_sig,
               int_to_little_endian(tx_in.sequence, 4)>>)

\* TxOut.serialize: [st, bytes].
TxOut_serialize(tx_out) ==
    Join(<<int_to_little_endian(tx_out.amount, 8), serialize(tx_out.script_pubkey)>>)

\* Tx.serialize_legacy: [st, bytes].
serialize_legacy(t) ==
    LET inputs == Join([i \in 1..Len(t.tx_inputs) |-> TxIn_serialize(t.tx_inputs[i])])
        outputs == Join([i \in 1..Len(t.tx_outputs) |-> TxOut_serialize(t.tx_outputs[i])])
    IN  Join(<<int_to_little_endian(t.version, 4),
               Ok(encode_varint(Len(t.tx_inputs))), inputs,
               Ok(encode_varint(Len(t.tx_outputs))), outputs,
               int_to_little_endian(t.locktime, 4)>>)

\* TxIn.fetch_tx: the transaction TxFetcher.fetch returns for an id the cache
\* holds (the transactions of the model have testnet = False, the value
\* fetch writes into the cached transaction's flag).
fetch_tx(c, tx_in) == c[tx_in.prev_tx]

\* `a_list[index]` of a list of n elements: the position (from 1) of the
\* element read, a negative index counting from the end, and 0 when the
\* subscript raises IndexError.
ListPos(n, index) ==
    IF index >= 0 /\ index < n THEN index + 1
    ELSE IF index < 0 /\ index >= 0 - n THEN n + index + 1
    ELSE 0

\* `tx.tx_outputs[self.prev_index]` of TxIn.value and TxIn.script_pubkey:
\* [st, out], IndexError when the previous transaction has no such output.
SpentOutput(c, tx_in) ==
    LET outs == fetch_tx(c, tx_in).tx_outputs
        pos == IF tx_in.prev_index = NoIndex THEN 0
               ELSE ListPos(Len(outs), tx_in.prev_index)
    IN  IF pos = 0 THEN [st |-> "IndexError", out |-> TxOut(0, <<>>)]
        ELSE [st |-> "ok", out |-> outs[pos]]

\* TxIn.value: [st, val].
value(c, tx_in) ==
    LET spent == SpentOutput(c, tx_in) IN [st |-> spent.st, val |-> spent.out.amount]

\* TxIn.script_pubkey: [st, cmds], the cmds of the Script returned.
script_pubkey(c, tx_in) ==
    LET spent == SpentOutput(c, tx_in) IN [st |-> spent.st, cmds |-> spent.out.script_pubkey]

\* The first loop of Tx.fee over the inputs from the running total
\* total_input: [st, val].
RECURSIVE TotalInput(_, _, _)
TotalInput(c, tx_inputs, total_input) ==
    IF tx_inputs = <<>> THEN [st |-> "ok", val |-> total_input]
    ELSE LET v == value(c, tx_inputs[1])
         IN  IF v.st # "ok" THEN [st |-> v.st, val |-> 0]
             ELSE TotalInput(c, Tail(tx_inputs), total_input + v.val)

\* Tx.fee: [st, val].  The first loop sums the values of the inputs.  The
\* second loop evaluates `tx_output.amount()`; amount is the integer attribute
\* set by TxOut.__init__, and calling an integer raises TypeError, so the loop
\* raises at the first output.
fee(t, c) ==
    LET total_input == TotalInput(c, t.tx_inputs, 0)
        total_output == 0
    IN  IF total_input.st # "ok" THEN [st |-> total_input.st, val |-> 0]
        ELSE IF t.tx_outputs # <<>> THEN [st |-> "TypeError", val |-> 0]
        ELSE [st |-> "ok", val |-> total_input.val - total_output]

\* int.from_bytes(h256, 'big') as the Signature Capability reads it: the
\* capability (SigVerifies) takes z modulo 256, the low-order byte of the digest.
FromBytesBig(h256) == With(h256, LAMBDA d : d[Len(d)])

\* sig_hash serializing every input with the unlocking script it carries,
\* but for the target input.
sig_hash_KeepsOtherScripts(t, c, input_index, redeem_script) ==
    LET ins == [i \in 1..Len(t.tx_inputs) |->
                  LET tx_in == t.tx_inputs[i]
                      spent == script_pubkey(c, tx_in)
                      script_sig == IF i = input_index
                                    THEN IF redeem_script.present THEN redeem_script
                                         ELSE SomeScript(spent.cmds)
                                    ELSE tx_in.script_sig
                  IN  IF i = input_index /\ ~redeem_script.present /\ spent.st # "ok"
                      THEN [st |-> spent.st, bytes |-> <<>>]
                      ELSE TxIn_serialize(TxIn(tx_in.prev_tx, tx_in.prev_index,
                                               script_sig, tx_in.sequence))]
        outs == [i \in 1..Len(t.tx_outputs) |-> TxOut_serialize(t.tx_outputs[i])]
        inputs == Join(ins)
        outputs == Join(outs)
        payload == Join(<<int_to_little_endian(t.version, 4),
                          Ok(encode_varint(Len(t.tx_inputs))), inputs,
                          Ok(encode_varint(Len(t.tx_outputs))), outputs,
                          int_to_little_endian(t.locktime, 4),
                          int_to_little_endian(SIGHASH_ALL, 4)>>)
    IN  With(payload, LAMBDA p : [st |-> p.st, z |-> FromBytesBig(hash256(p.bytes))])

\* Tx.sig_hash: [st, z].
sig_hash(t, c, input_index, redeem_script) ==
    LET ins == [i \in 1..Len(t.tx_inputs) |->
                  LET tx_in == t.tx_inputs[i]
                      spent == script_pubkey(c, tx_in)
                      script_sig == IF i = input_index
                                    THEN IF redeem_script.present THEN redeem_script
                                         ELSE SomeScript(spent.cmds)
                                    ELSE NoScript
                  IN  IF i = input_index /\ ~redeem_script.present /\ spent.st # "ok"
                      THEN [st |-> spent.st, bytes |-> <<>>]
                      ELSE TxIn_serialize(TxIn(tx_in.prev_tx, tx_in.prev_index,
                                               script_sig, tx_in.sequence))]
        outs == [i \in 1..Len(t.tx_outputs) |-> TxOut_serialize(t.tx_outputs[i])]
        inputs == Join(ins)
        outputs == Join(outs)
        payload == Join(<<int_to_little_endian(t.version, 4),
                          Ok(encode_varint(Len(t.tx_inputs))), inputs,
                          Ok(encode_varint(Len(t.tx_outputs))), outputs,
                          int_to_little_endian(t.locktime, 4),
                          int_to_little_endian(SIGHASH_ALL, 4)>>)
    IN  With(payload, LAMBDA p : [st |-> p.st, z |-> FromBytesBig(hash256(p.bytes))])

\* Tx.hash_prevouts: [st, val, tx]; val is the memoized value returned, tx the
\* transaction with its memo fields as the call leaves them (unchanged when
\* the loop raised).
hash_prevouts(t) ==
    IF ~t._hash_prevouts.set
    THEN LET all_prevouts == Join([i \in 1..Len(t.tx_inputs) |->
                 Join(<<Ok(Reverse(t.tx_inputs[i].prev_tx)),
                        IndexBytes(t.tx_inputs[i].prev_index)>>)])
             all_sequence == Join([i \in 1..Len(t.tx_inputs) |->
                 int_to_little_endian(t.tx_inputs[i].sequence, 4)])
             loop == Join([i \in 1..Len(t.tx_inputs) |->
                 Join(<<IndexBytes(t.tx_inputs[i].prev_index),
                        int_to_little_endian(t.tx_inputs[i].sequence, 4)>>)])
         IN  IF loop.st # "ok" THEN [st |-> loop.st, val |-> NoHash, tx |-> t]
             ELSE With([t EXCEPT !._hash_prevouts = SomeHash(hash256(all_prevouts.bytes)),
                                 !._hash_sequence = SomeHash(hash256(all_sequence.bytes))],
                       LAMBDA t2 : [st |-> "ok", val |-> t2._hash_prevouts, tx |-> t2])
    ELSE [st |-> "ok", val |-> t._hash_prevouts, tx |-> t]

\* Tx.hash_sequence: [st, val, tx].
hash_sequence(t) ==
    IF ~t._hash_sequence.set
    THEN With(hash_prevouts(t),
              LAMBDA h : [st |-> h.st, val |-> h.tx._hash_sequence, tx |-> h.tx])
    ELSE [st |-> "ok", val |-> t._hash_sequence, tx |-> t]

\* Tx.hash_outputs: [st, val, tx].
hash_outputs(t) ==
    IF ~t._hash_outputs.set
    THEN LET all_outputs == Join([i \in 1..Len(t.tx_outputs) |->
                                     TxOut_serialize(t.tx_outputs[i])])
         IN  IF all_outputs.st # "ok" THEN [st |-> all_outputs.st, val |-> NoHash, tx |-> t]
             ELSE With([t EXCEPT !._hash_outputs = SomeHash(hash256(all_outputs.bytes))],
                       LAMBDA t2 : [st |-> "ok", val |-> t2._hash_outputs, tx |-> t2])
    ELSE [st |-> "ok", val |-> t._hash_outputs, tx |-> t]

\* Tx.sig_hash_bip143 as verify_input calls it (no witness_script): [st, z, tx].
sig_hash_bip143(t, c, input_index, redeem_script) ==
    LET pos == ListPos(Len(t.tx_inputs), input_index - 1)
        tx_in == t.tx_inputs[pos]
        spent == script_pubkey(c, tx_in)
        \* `p2pkh_script(cmds[1]).serialize()`
        code_of(cs) == IF Len(cs) < 2 THEN [st |-> "IndexError", bytes |-> <<>>]
                       ELSE serialize(<<Op(118), Op(169), cs[2], Op(136), Op(172)>>)
        script_code == IF redeem_script.present THEN code_of(redeem_script.cmds)
                       ELSE IF spent.st # "ok" THEN [st |-> spent.st, bytes |-> <<>>]
                       ELSE code_of(spent.cmds)
        amount == value(c, tx_in)
        failed(e, t2) == [st |-> e, z |-> 0, tx |-> t2]
        version == int_to_little_endian(t.version, 4)
        middle == Join(<<IndexBytes(tx_in.prev_index), script_code,
                         IF amount.st # "ok" THEN [st |-> amount.st, bytes |-> <<>>]
                         ELSE int_to_little_endian(amount.val, 8),
                         int_to_little_endian(tx_in.sequence, 4)>>)
        tail == Join(<<int_to_little_endian(t.locktime, 4),
                       int_to_little_endian(SIGHASH_ALL, 4)>>)
    IN  IF pos = 0 THEN failed("IndexError", t)
        ELSE IF version.st # "ok" THEN failed(version.st, t)
        ELSE With(hash_prevouts(t), LAMBDA hp :
          IF hp.st # "ok" THEN failed(hp.st, hp.tx)
          ELSE With(hash_sequence(hp.tx), LAMBDA hs :
            IF hs.st # "ok" THEN failed(hs.st, hs.tx)
            ELSE IF ~hs.val.set THEN failed("TypeError", hs.tx)
            ELSE With(middle, LAMBDA mid :
              IF mid.st # "ok" THEN failed(mid.st, hs.tx)
              ELSE With(hash_outputs(hs.tx), LAMBDA ho :
                IF ho.st # "ok" THEN failed(ho.st, ho.tx)
                ELSE IF tail.st # "ok" THEN failed(tail.st, ho.tx)
                ELSE [st |-> "ok",
                      z |-> With(version.bytes \o hp.val.val \o hs.val.val
                                   \o Reverse(tx_in.prev_tx) \o mid.bytes
                                   \o ho.val.val \o tail.bytes,
                                 LAMBDA p : FromBytesBig(hash256(p))),
                      tx |-> ho.tx]))))

(***************************************************************************)
(* Script.evaluate as one call: the loop of Step run to its end.           *)
(***************************************************************************)
\* What evaluate has come to: "done" with the value r it returns ("True" or
\* "False") or raises ("raise", the exception in exc), "cycle" when the locals
\* l are the locals an earlier pass of the loop started from, and "running".
Run(status, r, exc, l) == [status |-> status, r |-> r, exc |-> exc, l |-> l]

\* Up to n passes of `while len(cmds) > 0:` from the locals l, each pass
\* comparing the locals it leaves with the locals `mark` of an earlier pass.
RECURSIVE EvalRun(_, _, _, _, _)
EvalRun(l, mark, wit, zz, n) ==
    IF n = 0 THEN Run("running", "none", "none", l)
    ELSE IF n = 1
    THEN IF l.cmds = <<>> THEN Run("done", FinalResult(l.stack), "none", l)
         ELSE With(Iteration(l.stack, l.altstack, l.cmds, wit, zz),
                   LAMBDA m :
                     LET after == AfterOperation(m.r)
                     IN  IF after # "running"
                         THEN Run("done", after, IF after = "raise" THEN m.r ELSE "none", m)
                         ELSE IF /\ m.stack = mark.stack
                                 /\ m.altstack = mark.altstack
                                 /\ m.cmds = mark.cmds
                         THEN Run("cycle", "none", "none", m)
                         ELSE Run("running", "none", "none", m))
    ELSE With(EvalRun(l, mark, wit, zz, n \div 2),
              LAMBDA h : IF h.status # "running" THEN h
                         ELSE EvalRun(h.l, mark, wit, zz, n - (n \div 2)))

\* The while loop from the locals l: [r, exc] with r "True" or "False" for a
\* return, "raise" with the exception in exc, and "diverges" when a pass
\* leaves the locals (stack, altstack, cmds) an earlier pass started from, so
\* that the loop goes through the same passes for ever.  The locals of the
\* pass the loop has reached are compared with the locals l for n passes,
\* then with the locals reached for twice as many.
RECURSIVE EvalLoop(_, _, _, _)
EvalLoop(l, wit, zz, n) ==
    With(EvalRun(l, l, wit, zz, n),
         LAMBDA h : IF h.status = "done" THEN [r |-> h.r, exc |-> h.exc]
                    ELSE IF h.status = "cycle" THEN [r |-> "diverges", exc |-> "none"]
                    ELSE EvalLoop(h.l, wit, zz, 2 * n))

evaluate(self, zz, wit) == EvalLoop(Locals("True", <<>>, <<>>, self), wit, zz, 1)

(***************************************************************************)
(* The Signature Capability, signing side (module ecc, not part of the     *)
(* sources): PrivateKey k has the SEC public key Sec(k) and signs z with   *)
(* the DER signature SignDer(k, z), the one SigVerifies accepts.           *)
(***************************************************************************)
Sec(k) == <<2, k>>
SignDer(k, zz) == <<48, (k + zz) % 256>>

(***************************************************************************)
(* src/tx.py: verify_input, verify, sign_input.                            *)
(***************************************************************************)
is_p2sh_script_pubkey(cs) ==
    /\ Len(cs) = 3
    /\ cs[1] = Op(169)
    /\ IsBytes(cs[2])
    /\ Len(cs[2].data) = 20
    /\ cs[3] = Op(135)

is_p2wpkh_script_pubkey(cs) ==
    /\ Len(cs) = 2
    /\ cs[1] = Op(0)
    /\ IsBytes(cs[2])
    /\ Len(cs[2].data) = 20

\* `witness = tx_in.witness` after sig_hash_bip143 returned h.
WithWitness(h, tx_in) ==
    IF h.st # "ok" THEN [st |-> h.st, z |-> 0, witness |-> NoWitness, tx |-> h.tx]
    ELSE IF ~tx_in.has_witness
    THEN [st |-> "AttributeError", z |-> 0, witness |-> NoWitness, tx |-> h.tx]
    ELSE [st |-> "ok", z |-> h.z, witness |-> Witness(tx_in.witness), tx |-> h.tx]

\* `witness = None` after sig_hash returned h.
WithoutWitness(h, t) == [st |-> h.st, z |-> h.z, witness |-> NoWitness, tx |-> t]

\* The classification of verify_input, up to `# combine scripts`: the
\* signature hash z and the witness handed to evaluate, [st, z, witness, tx].
Classify(t, c, input_index) ==
    LET pos == ListPos(Len(t.tx_inputs), input_index - 1)
        tx_in == t.tx_inputs[pos]
        spent == script_pubkey(c, tx_in)
        failed(e) == [st |-> e, z |-> 0, witness |-> NoWitness, tx |-> t]
    IN  IF pos = 0 THEN failed("IndexError")
        ELSE IF spent.st # "ok" THEN failed(spent.st)
        ELSE IF is_p2sh_script_pubkey(spent.cmds)
        THEN IF ~tx_in.script_sig.present THEN failed("AttributeError")
             ELSE IF tx_in.script_sig.cmds = <<>> THEN failed("IndexError")
             ELSE LET cmd == tx_in.script_sig.cmds[Len(tx_in.script_sig.cmds)]
                  IN  IF IsInt(cmd) THEN failed("TypeError")
                      ELSE LET length == int_to_little_endian(Len(cmd.data), 1)
                               redeem_script == ScriptParse(length.bytes \o cmd.data)
                           IN  IF length.st # "ok" THEN failed(length.st)
                               ELSE IF redeem_script.st # "ok" THEN failed(redeem_script.st)
                               ELSE IF is_p2wpkh_script_pubkey(redeem_script.cmds)
                               THEN With(sig_hash_bip143(t, c, input_index,
                                                         SomeScript(redeem_script.cmds)),
                                         LAMBDA h : WithWitness(h, tx_in))
                               ELSE With(sig_hash(t, c, input_index,
                                                  SomeScript(redeem_script.cmds)),
                                         LAMBDA h : WithoutWitness(h, t))
        ELSE IF is_p2wpkh_script_pubkey(spent.cmds)
        THEN With(sig_hash_bip143(t, c, input_index, NoScript),
                  LAMBDA h : WithWitness(h, tx_in))
        ELSE With(sig_hash(t, c, input_index, NoScript), LAMBDA h : WithoutWitness(h, t))

\* verify_input evaluating the unlocking script's own command list, which the
\* evaluation consumes.
verify_input_ConsumesScriptSig(t, c, input_index) ==
    With(Classify(t, c, input_index),
         LAMBDA k :
           LET pos == ListPos(Len(t.tx_inputs), input_index - 1)
               tx_in == t.tx_inputs[pos]
               consumed == [k.tx EXCEPT !.tx_inputs[pos].script_sig = SomeScript(<<>>)]
           IN  IF k.st # "ok" THEN [r |-> k.st, tx |-> k.tx]
               ELSE IF ~tx_in.script_sig.present THEN [r |-> "TypeError", tx |-> k.tx]
               ELSE With(evaluate(tx_in.script_sig.cmds \o script_pubkey(c, tx_in).cmds,
                                  k.z, k.witness),
                         LAMBDA e : [r |-> IF e.r = "raise" THEN e.exc ELSE e.r,
                                     tx |-> consumed]))

\* Tx.verify_input: [r, tx]; r is "True" or "False", or the exception raised.
verify_input(t, c, input_index) ==
    With(Classify(t, c, input_index),
         LAMBDA k :
           LET tx_in == t.tx_inputs[ListPos(Len(t.tx_inputs), input_index - 1)]
           IN  IF k.st # "ok" THEN [r |-> k.st, tx |-> k.tx]
               ELSE IF ~tx_in.script_sig.present THEN [r |-> "TypeError", tx |-> k.tx]
               ELSE With(evaluate(tx_in.script_sig.cmds \o script_pubkey(c, tx_in).cmds,
                                  k.z, k.witness),
                         LAMBDA e : [r |-> IF e.r = "raise" THEN e.exc ELSE e.r,
                                     tx |-> k.tx]))

\* The loop of Tx.verify from input i on.
RECURSIVE VerifyInputs(_, _, _)
VerifyInputs(t, c, i) ==
    IF i > Len(t.tx_inputs) THEN [r |-> "True", tx |-> t]
    ELSE With(verify_input(t, c, i),
              LAMBDA v : IF v.r = "True" THEN VerifyInputs(v.tx, c, i + 1) ELSE v)

\* Tx.verify: [r, tx].
verify(t, c) ==
    LET f == fee(t, c)
    IN  IF f.st # "ok" THEN [r |-> f.st, tx |-> t]
        ELSE IF f.val < 0 THEN [r |-> "False", tx |-> t]
        ELSE VerifyInputs(t, c, 1)

\* Tx.sign_input with the private key k: [r, tx].
sign_input(t, c, input_index, k) ==
    With(sig_hash(t, c, input_index, NoScript),
         LAMBDA h :
           LET der == SignDer(k, h.z)
               sig == der \o <<SIGHASH_ALL>>
               sec == Sec(k)
               script_sig == SomeScript(<<Push(sig), Push(sec)>>)
               pos == ListPos(Len(t.tx_inputs), input_index - 1)
           IN  IF h.st # "ok" THEN [r |-> h.st, tx |-> t]
               ELSE IF pos = 0 THEN [r |-> "IndexError", tx |-> t]
               ELSE With([t EXCEPT !.tx_inputs[pos].script_sig = script_sig],
                         LAMBDA signed : verify_input(signed, c, input_index)))

(***************************************************************************)
(* SpecTx: a transaction that spends outputs of one cached previous        *)
(* transaction, and the calls fee, sign_input, verify_input and verify     *)
(* made on it:                                                             *)
(*   "built" --fee--> "fee"                                                *)
(*   "built" --sign_input--> "signed"                                      *)
(*   "built", "signed" --verify_input--> "input verified"                  *)
(*   "built", "signed" --verify--> "verified" --verify--> "verified twice" *)
(***************************************************************************)
MaxInputs == 2      \* most inputs of the transaction
MaxOutputs == 1     \* most outputs of the transaction

\* One entry of `outcome`.
Outcome(op, input_index, k, r, val) ==
    [op |-> op, input_index |-> input_index, key |-> k, r |-> r, val |-> val]

FeeCall ==
    /\ tx_phase = "built"
    /\ LET f == fee(tx, cache)
       IN  outcome' = Append(outcome, Outcome("fee", 0, 0, f.st, f.val))
    /\ tx_phase' = "fee"
    /\ UNCHANGED <<codecVars, evalVars, tx, cache, numVars, restVars>>

\* The redeem scripts handed to sig_hash: none, and the script OP_NOP.
RedeemChoices == {NoScript, SomeScript(<<Op(97)>>)}

\* Tx.sig_hash called by the user: it builds new TxIn objects and assigns
\* nothing to the transaction.
SigHashCall ==
    /\ tx_phase = "built"
    /\ \E i \in 1..Len(tx.tx_inputs), r \in RedeemChoices :
          \E h \in {sig_hash(tx, cache, i, r)} :
              outcome' = Append(outcome, Outcome("sig_hash", i, 0, h.st, h.z))
    /\ tx_phase' = "hashed"
    /\ UNCHANGED <<codecVars, evalVars, tx, cache, numVars, restVars>>

\* The private keys handed to sign_input.
Keys == {7, 9}

SignInputCall ==
    /\ tx_phase = "built"
    /\ \E i \in 1..Len(tx.tx_inputs), k \in Keys :
          \E s \in {sign_input(tx, cache, i, k)} :
              /\ tx' = s.tx
              /\ outcome' = Append(outcome, Outcome("sign_input", i, k, s.r, 0))
    /\ tx_phase' = "signed"
    /\ UNCHANGED <<codecVars, evalVars, cache, numVars, restVars>>

VerifyInputCall ==
    /\ tx_phase \in {"built", "signed"}
    /\ \E i \in 1..Len(tx.tx_inputs) :
          \E v \in {verify_input(tx, cache, i)} :
              /\ tx' = v.tx
              /\ outcome' = Append(outcome, Outcome("verify_input", i, 0, v.r, 0))
    /\ tx_phase' = "input verified"
    /\ UNCHANGED <<codecVars, evalVars, cache, numVars, restVars>>

VerifyCall ==
    /\ tx_phase \in {"built", "signed", "verified"}
    /\ \E v \in {verify(tx, cache)} :
           /\ tx' = v.tx
           /\ outcome' = Append(outcome, Outcome("verify", 0, 0, v.r, 0))
    /\ tx_phase' = IF tx_phase = "verified" THEN "verified twice" ELSE "verified"
    /\ UNCHANGED <<codecVars, evalVars, cache, numVars, restVars>>

\* The previous transaction: its id and its outputs.  Output 0 is spent by
\* pushing 1; output 1 is pay-to-pubkey-hash for key 7; output 2 is
\* pay-to-witness-pubkey-hash for key 7; output 3 cannot be spent; output 4
\* is pay-to-script-hash of the redeem script OP_NOP.
PrevId == [i \in 1..32 |-> 17]
PrevOutputs ==
    <<TxOut(3, <<Op(81), Op(135)>>),
      TxOut(1, p2pkh_script(hash160(Sec(7)))),
      TxOut(2, <<Op(0), Push(hash160(Sec(7)))>>),
      TxOut(1, <<Op(0)>>),
      TxOut(1, <<Op(169), Push(hash160(<<97>>)), Op(135)>>)>>
PrevTx == Tx(1, <<>>, PrevOutputs, 0, FALSE, FALSE)

\* The input that spends output prev_index with the given unlocking script.
Spend(prev_index, script_sig) == TxIn(PrevId, prev_index, script_sig, 65534)

TxInputs ==
    {Spend(0, SomeScript(<<Op(81)>>)),
     Spend(0, SomeScript(<<>>)),
     Spend(1, NoScript),
     [Spend(2, SomeScript(<<>>)) EXCEPT !.has_witness = TRUE,
                                  !.witness = <<Push(<<48, 8, 1>>), Push(Sec(7))>>],
     Spend(3, SomeScript(<<>>)),
     Spend(4, SomeScript(<<Op(81), Push(<<97>>)>>))}
TxOutputs == {TxOut(1, <<Op(81)>>), TxOut(5, <<Op(81)>>)}

InitTx ==
    /\ CodecIdle(<<>>)
    /\ EvalIdle
    /\ \E ins \in SeqsUpTo(TxInputs, MaxInputs), outs \in SeqsUpTo(TxOutputs, MaxOutputs) :
          tx = Tx(1, ins, outs, 0, FALSE, FALSE)
    /\ cache = [id \in {PrevId} |-> PrevTx]
    /\ tx_phase = "built"
    /\ outcome = <<>>
    /\ NumIdle
    /\ RestIdle
NextTx == FeeCall \/ SignInputCall \/ VerifyInputCall \/ VerifyCall
SpecTx == InitTx /\ [][NextTx]_vars

\* The step is a call of `op`: it appends the outcome of that call.
Called(op) ==
    /\ Len(outcome') = Len(outcome) + 1
    /\ outcome'[Len(outcome')].op = op

RECURSIVE TotalOutput(_)
TotalOutput(tx_outputs) ==
    IF tx_outputs = <<>> THEN 0
    ELSE tx_outputs[1].amount + TotalOutput(Tail(tx_outputs))

\* Input i spends a pay-to-pubkey-hash output locked to the public key of k.
SpendsP2pkhOf(i, k) ==
    script_pubkey(cache, tx.tx_inputs[i]).cmds = p2pkh_script(hash160(Sec(k)))

\* C17: sign_input on an input that spends a pay-to-pubkey-hash output
\* locked to the signer's public key returns True, and so does verify_input
\* on the same index afterwards.
C17_SignThenVerifyP2pkh ==
    [][/\ Called("sign_input") =>
            LET o == outcome'[Len(outcome')]
            IN  SpendsP2pkhOf(o.input_index, o.key) => o.r = "True"
       /\ (Called("verify_input") /\ tx_phase = "signed") =>
            LET o == outcome'[Len(outcome')]
                signed == outcome[Len(outcome)]
            IN  (o.input_index = signed.input_index
                    /\ SpendsP2pkhOf(signed.input_index, signed.key)) => o.r = "True"]_vars

\* C18: verify returns False when the spent outputs are worth less than the
\* transaction's outputs; otherwise it returns True when verify_input is
\* true for every input, and False when the first input that is not true
\* returns False.
C18_VerifyChecksFeeThenInputs ==
    [][Called("verify") =>
         LET r == outcome'[Len(outcome')].r
             n == Len(tx.tx_inputs)
             ok(i) == verify_input(tx, cache, i).r = "True"
         IN  IF TotalInput(cache, tx.tx_inputs, 0).val < TotalOutput(tx.tx_outputs)
             THEN r = "False"
             ELSE /\ (\A i \in 1..n : ok(i)) => r = "True"
                  /\ \A i \in 1..n :
                        ((\A j \in 1..(i - 1) : ok(j))
                            /\ verify_input(tx, cache, i).r = "False") => r = "False"]_vars

\* C19: fee returns the sum of the amounts of the previous outputs the inputs
\* reference minus the sum of the amounts of the transaction's outputs.
C19_FeeIsInputsMinusOutputs ==
    [][Called("fee") =>
         LET o == outcome'[Len(outcome')]
         IN  /\ o.r = "ok"
             /\ o.val = TotalInput(cache, tx.tx_inputs, 0).val - TotalOutput(tx.tx_outputs)]_vars

\* C20: a call of verify leaves the inputs (with their scripts and witness
\* data) and the outputs of the transaction unchanged, and a second call
\* right after the first ends as the first did: it returns the same value, or
\* raises the same exception.
C20_VerifyIsIdempotent ==
    [][Called("verify") =>
         /\ tx'.tx_inputs = tx.tx_inputs
         /\ tx'.tx_outputs = tx.tx_outputs
         /\ cache' = cache
         /\ tx_phase = "verified" =>
               outcome'[Len(outcome')].r = outcome[Len(outcome)].r]_vars

\* Two spendable inputs, one of them through the pay-to-script-hash rule:
\* verify returned True twice.
C20_Witness ==
    /\ tx_phase = "verified twice"
    /\ tx.tx_inputs = <<Spend(0, SomeScript(<<Op(81)>>)),
                        Spend(4, SomeScript(<<Op(81), Push(<<97>>)>>))>>
    /\ outcome[1].r = "True"
    /\ outcome[2].r = "True"

(***************************************************************************)
(* SpecSegwit: transactions whose inputs spend the outputs of a previous   *)
(* transaction that holds one output of each class verify_input tells      *)
(* apart; the call verify_input on them, and calls of sig_hash_bip143 with *)
(* an assignment by the caller to an output's amount or to an input's      *)
(* sequence in between:                                                    *)
(*   "built" --verify_input--> "input verified"                            *)
(*   "built" --sig_hash_bip143--> "digest" --assignment--> "mutated"       *)
(*           --sig_hash_bip143--> "digest again"                           *)
(***************************************************************************)
\* Script.is_p2wsh_script_pubkey.
is_p2wsh_script_pubkey(cs) ==
    /\ Len(cs) = 2
    /\ cs[1] = Op(0)
    /\ IsBytes(cs[2])
    /\ Len(cs[2].data) = 32

\* The redeem script OP_0 <hash160 of the public key of 7>, in raw bytes.
RedeemP2wpkh == <<0, 20>> \o hash160(Sec(7))

\* Output 0 is pay-to-witness-pubkey-hash for key 7; output 1 is
\* pay-to-witness-script-hash of the witness script OP_NOP; output 2 is
\* pay-to-script-hash of RedeemP2wpkh; output 3 is spent by pushing 1;
\* output 4 is pay-to-script-hash of the redeem script OP_NOP.
SegwitPrevOutputs ==
    <<TxOut(2, <<Op(0), Push(hash160(Sec(7)))>>),
      TxOut(2, <<Op(0), Push(sha256(<<97>>))>>),
      TxOut(2, <<Op(169), Push(hash160(RedeemP2wpkh)), Op(135)>>),
      TxOut(3, <<Op(81), Op(135)>>),
      TxOut(1, <<Op(169), Push(hash160(<<97>>)), Op(135)>>)>>
SegwitPrevTx == Tx(1, <<>>, SegwitPrevOutputs, 0, FALSE, FALSE)

\* tx_in with its witness attribute set to items.
WithItems(tx_in, items) == [tx_in EXCEPT !.has_witness = TRUE, !.witness = items]

SegwitInputs ==
    {WithItems(Spend(0, SomeScript(<<>>)), <<Push(<<48, 8, 1>>), Push(Sec(7))>>),
     Spend(0, SomeScript(<<>>)),
     WithItems(Spend(1, SomeScript(<<>>)), <<Push(<<1>>), Push(<<97>>)>>),
     WithItems(Spend(1, SomeScript(<<>>)), <<Push(<<1>>), Push(<<>>)>>),
     WithItems(Spend(2, SomeScript(<<Push(RedeemP2wpkh)>>)),
               <<Push(<<48, 8, 1>>), Push(Sec(7))>>),
     WithItems(Spend(3, SomeScript(<<Op(81)>>)), <<Push(<<1>>)>>),
     Spend(4, SomeScript(<<Op(81), Push(<<97>>)>>))}
OutputLists == SeqsUpTo({TxOut(1, <<Op(81)>>)}, MaxOutputs)

InitSegwit ==
    /\ CodecIdle(<<>>)
    /\ EvalIdle
    /\ \E ins \in SeqsUpTo(SegwitInputs, MaxInputs) \ {<<>>}, outs \in OutputLists :
          tx = Tx(1, ins, outs, 0, FALSE, TRUE)
    /\ cache = [id \in {PrevId} |-> SegwitPrevTx]
    /\ tx_phase = "built"
    /\ outcome = <<>>
    /\ NumIdle
    /\ RestIdle

\* Tx.sig_hash_bip143 called by the user for an input that spends a
\* pay-to-witness-pubkey-hash output.
SigHashBip143Call ==
    /\ tx_phase \in {"built", "mutated"}
    /\ \E i \in 1..Len(tx.tx_inputs) :
          /\ is_p2wpkh_script_pubkey(script_pubkey(cache, tx.tx_inputs[i]).cmds)
          /\ \E h \in {sig_hash_bip143(tx, cache, i, NoScript)} :
                /\ tx' = h.tx
                /\ outcome' = Append(outcome, Outcome("sig_hash_bip143", i, 0, h.st, h.z))
    /\ tx_phase' = IF tx_phase = "built" THEN "digest" ELSE "digest again"
    /\ UNCHANGED <<codecVars, evalVars, cache, numVars, restVars>>

\* The caller's `tx.tx_outputs[j].amount = 7`: the attributes of Tx
\* and TxOut are plain attributes, and no code runs on the assignment.
AssignAmount ==
    /\ tx_phase = "digest"
    /\ \E j \in 1..Len(tx.tx_outputs) : tx' = [tx EXCEPT !.tx_outputs[j].amount = 7]
    /\ tx_phase' = "mutated"
    /\ UNCHANGED <<codecVars, evalVars, cache, outcome, numVars, restVars>>

\* The caller's `tx.tx_inputs[j].sequence = 3`.
AssignSequence ==
    /\ tx_phase = "digest"
    /\ \E j \in 1..Len(tx.tx_inputs) : tx' = [tx EXCEPT !.tx_inputs[j].sequence = 3]
    /\ tx_phase' = "mutated"
    /\ UNCHANGED <<codecVars, evalVars, cache, outcome, numVars, restVars>>

NextSegwit == VerifyInputCall \/ SigHashBip143Call \/ AssignAmount \/ AssignSequence
SpecSegwit == InitSegwit /\ [][NextSegwit]_vars

\* The class of the output that input i spends.
SpentClass(i) ==
    LET tx_in == tx.tx_inputs[i]
        spent == script_pubkey(cache, tx_in).cmds
        redeem == ScriptParse(<<Len(Top(tx_in.script_sig.cmds).data)>>
                                  \o Top(tx_in.script_sig.cmds).data)
    IN  IF is_p2sh_script_pubkey(spent)
        THEN IF redeem.st = "ok" /\ is_p2wpkh_script_pubkey(redeem.cmds)
             THEN "p2sh-p2wpkh" ELSE "legacy"
        ELSE IF is_p2wpkh_script_pubkey(spent) THEN "p2wpkh"
        ELSE IF is_p2wsh_script_pubkey(spent) THEN "p2wsh"
        ELSE "legacy"

\* C21: verify_input on an input that carries a witness hands that witness
\* to the evaluation when the spent output is pay-to-witness-pubkey-hash
\* (plain or wrapped in pay-to-script-hash, with the BIP143 digest) or
\* pay-to-witness-script-hash, and hands no witness, with the legacy digest,
\* when the spent output is of the legacy class.
C21_ClassifiesSpentOutput ==
    [][Called("verify_input") =>
         LET i == outcome'[Len(outcome')].input_index
             tx_in == tx.tx_inputs[i]
             k == Classify(tx, cache, i)
             class == SpentClass(i)
         IN  tx_in.has_witness =>
               /\ k.st = "ok"
               /\ class = "p2wpkh" =>
                     /\ k.witness = Witness(tx_in.witness)
                     /\ k.z = sig_hash_bip143(tx, cache, i, NoScript).z
               /\ class = "p2sh-p2wpkh" =>
                     /\ k.witness = Witness(tx_in.witness)
                     /\ k.z = sig_hash_bip143(tx, cache, i,
                                  SomeScript(ScriptParse(<<Len(RedeemP2wpkh)>>
                                                 \o RedeemP2wpkh).cmds)).z
               /\ class = "p2wsh" => k.witness = Witness(tx_in.witness)
               /\ class = "legacy" => k.witness = NoWitness]_vars

(***************************************************************************)
(* SpecP2sh: evaluate on scripts that end in a data push followed by       *)
(* OP_HASH160 <20 bytes> OP_EQUAL, the pattern of the pay-to-script-hash   *)
(* rule, over pushed elements that are well-formed and malformed scripts   *)
(* and 20-byte hashes that do and do not match them.                       *)
(***************************************************************************)
RedeemElements == {<<97>>, <<>>, <<81>>, <<2, 1>>, <<81, 81>>, Sha256OfEmpty}
P2shPrefixes == {<<>>, <<Push(<<>>)>>, <<Push(<<1>>)>>}
P2shScripts ==
    {pre \o <<Push(e), Op(169), Push(hash160(h)), Op(135)>> :
        pre \in P2shPrefixes, e \in RedeemElements, h \in RedeemElements}
P2shWitnesses == {NoWitness, Witness(<<Push(<<>>)>>), Witness(<<Push(<<97>>)>>)}

InitP2sh == EvalInit(P2shScripts, P2shWitnesses)
SpecP2sh == InitP2sh /\ [][EvalNext]_vars

\* The command stream cs is exactly OP_HASH160, a 20-byte element, OP_EQUAL.
IsP2shPattern(cs) == is_p2sh_script_pubkey(cs)

\* C22: the step that pushes an element while the rest of the command stream
\* is exactly OP_HASH160 <20 bytes> OP_EQUAL ends the evaluation with False
\* when hash160 of the element differs from the 20 bytes; otherwise it leaves
\* the stack as it was before the push and the command stream is the parsed
\* commands of the element.
C22_P2shRule ==
    [][(result = "running" /\ cmds # <<>> /\ IsBytes(cmds[1])
            /\ IsP2shPattern(Tail(cmds))) =>
         LET e == cmds[1].data
             h160 == cmds[3].data
         IN  IF hash160(e) # h160 THEN result' = "False"
             ELSE /\ result' = "running"
                  /\ stack' = stack
                  /\ cmds' = ScriptParse(encode_varint(Len(e)) \o e).cmds]_vars

(***************************************************************************)
(* Properties of the two witness rules of Script.evaluate (checked under   *)
(* SpecWitness).                                                           *)
(***************************************************************************)
\* The stack st is exactly [empty element, element of n bytes].
IsWitnessProgram(st, n) == Len(st) = 2 /\ st[1] = <<>> /\ Len(st[2]) = n

\* The bytes of a witness item; parse_segwit stores an empty item as 0.
ItemBytes(c) == IF IsInt(c) THEN <<>> ELSE c.data

\* C23: the step that pushes an element and so makes the stack exactly
\* [empty element, 32-byte element], with a witness of at least one item at
\* hand, ends the evaluation with False when SHA256 of the last witness item
\* differs from the 32 bytes; otherwise it leaves the stack empty and the
\* command stream extended with the witness items but the last, in order,
\* and then the parsed commands of the last witness item.
C23_P2wshRule ==
    [][(result = "running" /\ cmds # <<>> /\ IsBytes(cmds[1])
            /\ IsWitnessProgram(Append(stack, cmds[1].data), 32)
            /\ witness.present /\ witness.items # <<>>) =>
         LET s256 == cmds[1].data
             items == witness.items
             witness_script == ItemBytes(items[Len(items)])
         IN  IF sha256(witness_script) # s256 THEN result' = "False"
             ELSE /\ result' = "running"
                  /\ stack' = <<>>
                  /\ cmds' = Tail(cmds) \o SubSeq(items, 1, Len(items) - 1)
                                \o ScriptParse(encode_varint(Len(witness_script))
                                                    \o witness_script).cmds]_vars

\* What the step that pushes an element does under the P2WPKH rule: when
\* the push makes the stack exactly [empty element, 20-byte element] the
\* step leaves the stack empty and the command stream extended with the
\* witness items, in order, and then OP_DUP OP_HASH160 <the 20 bytes>
\* OP_EQUALVERIFY OP_CHECKSIG; a push that makes a stack of any other shape
\* (and starts neither of the other two rules) only puts the element on the
\* stack.
P2wpkhStep ==
    (result = "running" /\ cmds # <<>> /\ IsBytes(cmds[1])) =>
         LET pushed == Append(stack, cmds[1].data)
         IN  IF IsWitnessProgram(pushed, 20)
             THEN /\ result' = "running"
                  /\ stack' = <<>>
                  /\ cmds' = Tail(cmds) \o witness.items
                                \o <<Op(118), Op(169), Push(pushed[2]), Op(136), Op(172)>>
             ELSE (~IsWitnessProgram(pushed, 32) /\ ~is_p2sh_script_pubkey(Tail(cmds))) =>
                     /\ result' = "running"
                     /\ stack' = pushed
                     /\ cmds' = Tail(cmds)

\* C24: every step that pushes an element does what the P2WPKH rule says,
\* with a witness list at hand and with the witness absent (no witness
\* items to add).
C24_P2wpkhRule == [][P2wpkhStep]_vars

\* The same for the evaluations that were handed a witness list.
P2wpkhRuleWithWitness == [][witness.present => P2wpkhStep]_vars

(***************************************************************************)
(* SpecSigHash: transactions whose inputs spend the same outputs with      *)
(* different unlocking scripts, and the calls sig_hash and sign_input:     *)
(*   "built" --sig_hash--> "hashed"                                        *)
(*   "built" --sign_input--> "signed"                                      *)
(***************************************************************************)
SigHashInputs ==
    {Spend(0, SomeScript(<<Op(81)>>)),
     Spend(0, SomeScript(<<>>)),
     Spend(0, NoScript),
     Spend(1, NoScript),
     Spend(1, SomeScript(<<Push(<<48, 8, 1>>), Push(Sec(7))>>))}

InitSigHash ==
    /\ CodecIdle(<<>>)
    /\ EvalIdle
    /\ \E ins \in SeqsUpTo(SigHashInputs, MaxInputs) \ {<<>>}, outs \in OutputLists :
          tx = Tx(1, ins, outs, 0, FALSE, FALSE)
    /\ cache = [id \in {PrevId} |-> PrevTx]
    /\ tx_phase = "built"
    /\ outcome = <<>>
    /\ NumIdle
    /\ RestIdle
NextSigHash == SigHashCall \/ SignInputCall
SpecSigHash == InitSigHash /\ [][NextSigHash]_vars

\* t with the unlocking script of every input replaced by script_sigs[i].
WithScriptSigs(t, script_sigs) ==
    [t EXCEPT !.tx_inputs = [j \in 1..Len(t.tx_inputs) |->
                               [t.tx_inputs[j] EXCEPT !.script_sig = script_sigs[j]]]]

\* The transaction sig_hash(i) commits to: the empty script in every other
\* input, the redeem script or the spent output's locking script in input i.
Committed(t, c, i, redeem_script) ==
    WithScriptSigs(t, [j \in 1..Len(t.tx_inputs) |->
                         IF j # i THEN SomeScript(<<>>)
                         ELSE IF redeem_script.present THEN redeem_script
                         ELSE SomeScript(script_pubkey(c, t.tx_inputs[j]).cmds)])

\* The digest of the legacy serialization of t followed by the hash type.
DigestOf(t) ==
    FromBytesBig(hash256(serialize_legacy(t).bytes
                           \o int_to_little_endian(SIGHASH_ALL, 4).bytes))

\* C25 (state part): sig_hash(i) is the digest of the serialization of the
\* transaction with every other input's unlocking script empty and input i's
\* script the spent output's locking script, or the redeem script when one
\* is given; so it is the same for the transaction with every unlocking
\* script unset.
C25_Commits ==
    tx_phase # "none" =>
        \A i \in 1..Len(tx.tx_inputs), r \in RedeemChoices :
            LET unset == WithScriptSigs(tx, [j \in 1..Len(tx.tx_inputs) |-> NoScript])
            IN  With(sig_hash(tx, cache, i, r),
                     LAMBDA h : /\ h.st = "ok"
                                /\ h.z = DigestOf(Committed(tx, cache, i, r))
                                /\ h = sig_hash(unset, cache, i, r))

\* C25: sig_hash commits as C25_Commits says in every state, a call of
\* sig_hash leaves the transaction as it was, and a call of sign_input for
\* any input leaves the digest of every input as it was.
C25_SigHashIgnoresUnlockingScripts ==
    /\ []C25_Commits
    /\ [][/\ Called("sig_hash") => (tx' = tx /\ cache' = cache)
          /\ Called("sign_input") =>
                \A i \in 1..Len(tx.tx_inputs), r \in RedeemChoices :
                    sig_hash(tx', cache', i, r) = sig_hash(tx, cache, i, r)]_vars

\* The second of two inputs that carried different unlocking scripts has
\* been signed.
C25_Witness ==
    /\ tx_phase = "signed"
    /\ Len(tx.tx_inputs) = 2
    /\ outcome[1].op = "sign_input"
    /\ outcome[1].input_index = 2
    /\ tx.tx_inputs[1].script_sig = SomeScript(<<Op(81)>>)
    /\ tx.tx_inputs[2].script_sig = SomeScript(<<Push(SignDer(7, sig_hash(tx, cache, 2, NoScript).z)
                                                       \o <<SIGHASH_ALL>>), Push(Sec(7))>>)

(***************************************************************************)
(* Properties of the BIP143 support hashes (checked under SpecSegwit).     *)
(***************************************************************************)
\* The byte strings the three support hashes are taken of.
AllPrevouts(t) ==
    Join([i \in 1..Len(t.tx_inputs) |->
            Join(<<Ok(Reverse(t.tx_inputs[i].prev_tx)),
                   IndexBytes(t.tx_inputs[i].prev_index)>>)]).bytes
AllSequence(t) ==
    Join([i \in 1..Len(t.tx_inputs) |->
            int_to_little_endian(t.tx_inputs[i].sequence, 4)]).bytes
AllOutputs(t) ==
    Join([i \in 1..Len(t.tx_outputs) |-> TxOut_serialize(t.tx_outputs[i])]).bytes

\* C26: a call of sig_hash_bip143 computes a support hash only if it is not
\* yet cached, leaves the prevouts and sequence caches both set, and the
\* three values it uses are the hashes of the transaction's prevouts,
\* sequences and outputs as they are at the call.
C26_SupportHashesAreCurrent ==
    [][Called("sig_hash_bip143") =>
         LET hp == hash_prevouts(tx)
             hs == hash_sequence(hp.tx)
             ho == hash_outputs(hs.tx)
         IN  /\ tx._hash_prevouts.set => tx'._hash_prevouts = tx._hash_prevouts
             /\ tx._hash_sequence.set => tx'._hash_sequence = tx._hash_sequence
             /\ tx._hash_outputs.set => tx'._hash_outputs = tx._hash_outputs
             /\ tx'._hash_prevouts.set /\ tx'._hash_sequence.set
             /\ hp.val.val = hash256(AllPrevouts(tx))
             /\ hs.val.val = hash256(AllSequence(tx))
             /\ ho.val.val = hash256(AllOutputs(tx))]_vars

(***************************************************************************)
(* SpecAgain: evaluate called twice on the same Script with the same z and *)
(* witness, and Script.__add__ called on it.                               *)
(*   "idle" --evaluate--> ... --> returned --evaluate--> ... --> returned  *)
(*   phase "eval" --__add__--> "added"                                     *)
(***************************************************************************)
\* evaluate is entered a second time, after the first call has returned; the
\* first call's result is kept in `outcome`.
EvalAgain ==
    /\ result \in {"True", "False", "raise"}
    /\ outcome = <<>>
    /\ outcome' = <<Outcome("evaluate", 0, 0, result, 0)>>
    /\ cmds' = self_cmds
    /\ stack' = <<>>
    /\ altstack' = <<>>
    /\ result' = "running"
    /\ UNCHANGED <<codecVars, tx, cache, tx_phase, witness, z, last, numVars, restVars>>

\* The Scripts a Script is added to.
OtherScripts == {<<>>, <<Op(135)>>, <<Push(<<1>>), Op(99)>>}

\* Script.__add__: `Script(self.cmds + other.cmds)`, a new Script (kept in
\* parse_out) over a new list.
AddCall ==
    /\ phase = "eval"
    /\ \E other \in OtherScripts : parse_out' = [st |-> "ok", cmds |-> self_cmds \o other]
    /\ phase' = "added"
    /\ UNCHANGED <<stream, self_cmds, ser_out, evalVars, txVars, numVars, restVars>>

AgainIfScripts == {FlatOuter(o) : o \in {b \in OuterBlocks : ~b.then.on}} \cup {NestedExample}
AgainWitnessScripts ==
    WitnessScripts \cup {<<Push(<<97>>), Op(169), Push(hash160(<<97>>)), Op(135)>>}
AgainWitnesses == {NoWitness, Witness(<<Push(<<1>>), Push(<<>>)>>), Witness(<<Op(0), Push(<<97>>)>>)}

InitAgain ==
    \/ EvalInit(AgainIfScripts, {NoWitness})
    \/ EvalInit(AgainWitnessScripts, AgainWitnesses)
NextAgain == EvalCall \/ Step \/ Finish \/ EvalAgain \/ AddCall
SpecAgain == InitAgain /\ [][NextAgain]_vars

\* C27: no step of evaluate changes the Script's command sequence or the
\* witness list; a second evaluate with the same z and witness returns what
\* the first returned; __add__ returns the concatenation and leaves the
\* Script's command sequence as it was.
C27_EvaluateLeavesScriptAndWitness ==
    /\ [][/\ self_cmds' = self_cmds
          /\ witness' = witness
          /\ phase' = "added" /\ phase = "eval" =>
                \E other \in OtherScripts : parse_out'.cmds = self_cmds \o other]_vars
    /\ []((outcome # <<>> /\ Returned) => result = outcome[1].r)

\* The P2WSH rule has extended the command stream from the witness, in an
\* evaluation that returned True twice.
C27_Witness ==
    /\ outcome # <<>>
    /\ result = "True"
    /\ self_cmds = <<Op(0), Push(sha256(<<>>))>>
    /\ witness = Witness(<<Push(<<1>>), Push(<<>>)>>)

(***************************************************************************)
(* SpecNum: encode_num applied to an integer and decode_num to its result: *)
(*   "input" --encode_num--> "encoded" --decode_num--> "decoded"           *)
(* over every integer of magnitude at most MaxNum and the integers around  *)
(* the powers of two at which the encoding grows.                          *)
(***************************************************************************)
MaxNum == 300

EncodeNumCall ==
    /\ num_phase = "input"
    /\ encoded' = encode_num(number)
    /\ num_phase' = "encoded"
    /\ UNCHANGED <<codecVars, evalVars, txVars, number, decoded, restVars>>

DecodeNumCall ==
    /\ num_phase = "encoded"
    /\ decoded' = decode_num(encoded)
    /\ num_phase' = "decoded"
    /\ UNCHANGED <<codecVars, evalVars, txVars, number, encoded, restVars>>

EdgeMagnitudes ==
    {32767, 32768, 65535, 65536, 8388607, 8388608, 16777215, 16777216, 2147483647}
NumInputs == (-MaxNum..MaxNum) \cup EdgeMagnitudes \cup {-m : m \in EdgeMagnitudes}

InitNum ==
    /\ CodecIdle(<<>>)
    /\ EvalIdle
    /\ TxIdle
    /\ RestIdle
    /\ num_phase = "input"
    /\ number \in NumInputs
    /\ encoded = <<>>
    /\ decoded = 0
NextNum == EncodeNumCall \/ DecodeNumCall
SpecNum == InitNum /\ [][NextNum]_vars

Abs(n) == IF n < 0 THEN -n ELSE n

\* The least number of bytes that hold the magnitude m > 0.
RECURSIVE MinBytes(_)
MinBytes(m) == IF m < 256 THEN 1 ELSE 1 + MinBytes(m \div 256)

\* The most significant of the MinBytes(m) bytes of m.
TopByte(m) == m \div Pow256(MinBytes(m) - 1)

\* The little-endian value of b with the top bit of its last byte cleared.
MagnitudeOf(b) == little_endian_to_int([b EXCEPT ![Len(b)] = b[Len(b)] % 128])

\* C28: decode_num gives back the integer encode_num was given; zero is
\* encoded as the empty byte string; any other integer as its magnitude in
\* little-endian bytes, one byte longer than the magnitude needs exactly
\* when the top bit of the magnitude's last byte is set, with the top bit of
\* the final byte set exactly when the integer is negative.
C28_EncodeDecodeNum ==
    /\ num_phase = "decoded" => decoded = number
    /\ num_phase \in {"encoded", "decoded"} =>
         IF number = 0 THEN encoded = <<>>
         ELSE /\ encoded # <<>>
              /\ MagnitudeOf(encoded) = Abs(number)
              /\ Len(encoded) = MinBytes(Abs(number)) + (IF TopByte(Abs(number)) >= 128 THEN 1 ELSE 0)
              /\ (encoded[Len(encoded)] >= 128) <=> (number < 0)

\* -128 took the extra byte and came back.
C28_Witness ==
    /\ num_phase = "decoded"
    /\ number = -128
    /\ encoded = <<128, 128>>
    /\ decoded = -128

(***************************************************************************)
(* src/tx.py: Tx.parse, TxIn.parse, TxOut.parse and Tx.serialize.          *)
(* A parser takes the unread part of the stream and gives [st, ..., rest], *)
(* rest being what it left unread.                                         *)
(***************************************************************************)
\* What Script.parse leaves unread when it returns: the reader is past the
\* varint and past the declared length, or at the end of the stream.
ScriptRest(s) ==
    LET v == read_varint(s)
    IN  Drop(v.rest, v.val)

\* TxIn.parse: [st, tx_in, rest].
TxIn_parse(s) ==
    LET prev_tx == Reverse(Take(s, 32))
        prev_index == little_endian_to_int(Take(Drop(s, 32), 4))
    IN  With(ScriptParse(Drop(s, 36)),
             LAMBDA script_sig :
               With(ScriptRest(Drop(s, 36)),
                    LAMBDA r :
                      [st |-> script_sig.st,
                       tx_in |-> TxIn(prev_tx, prev_index, SomeScript(script_sig.cmds),
                                      little_endian_to_int(Take(r, 4))),
                       rest |-> Drop(r, 4)]))

\* TxOut.parse: [st, tx_out, rest].
TxOut_parse(s) ==
    LET amount == little_endian_to_int(Take(s, 8))
    IN  With(ScriptParse(Drop(s, 8)),
             LAMBDA script :
               [st |-> script.st,
                tx_out |-> TxOut(amount, script.cmds),
                rest |-> ScriptRest(Drop(s, 8))])

\* for _ in range(num_inputs): inputs.append(TxIn.parse(stream))
RECURSIVE ParseInputs(_, _, _)
ParseInputs(s, n, acc) ==
    IF n = 0 THEN [st |-> "ok", items |-> acc, rest |-> s]
    ELSE With(TxIn_parse(s),
              LAMBDA r :
                IF r.st # "ok" THEN [st |-> r.st, items |-> acc, rest |-> r.rest]
                ELSE ParseInputs(r.rest, n - 1, Append(acc, r.tx_in)))

\* for _ in range(num_outputs): outputs.append(TxOut.parse(stream))
RECURSIVE ParseOutputs(_, _, _)
ParseOutputs(s, n, acc) ==
    IF n = 0 THEN [st |-> "ok", items |-> acc, rest |-> s]
    ELSE With(TxOut_parse(s),
              LAMBDA r :
                IF r.st # "ok" THEN [st |-> r.st, items |-> acc, rest |-> r.rest]
                ELSE ParseOutputs(r.rest, n - 1, Append(acc, r.tx_out)))

\* The outputs and what follows them, after the inputs were read.
ParseBodyOutputs(inputs) ==
    With(read_varint(inputs.rest),
         LAMBDA num_outputs :
           IF num_outputs.st # "ok"
           THEN [st |-> num_outputs.st, inputs |-> <<>>, outputs |-> <<>>, rest |-> <<>>]
           ELSE With(ParseOutputs(num_outputs.rest, num_outputs.val, <<>>),
                     LAMBDA outputs :
                       [st |-> outputs.st, inputs |-> inputs.items,
                        outputs |-> outputs.items, rest |-> outputs.rest]))

\* The inputs, the outputs and what follows them, as both parse_legacy and
\* parse_segwit read them: [st, inputs, outputs, rest].
ParseBody(s) ==
    With(read_varint(s),
         LAMBDA num_inputs :
           IF num_inputs.st # "ok"
           THEN [st |-> num_inputs.st, inputs |-> <<>>, outputs |-> <<>>, rest |-> <<>>]
           ELSE With(ParseInputs(num_inputs.rest, num_inputs.val, <<>>),
                     LAMBDA inputs :
                       IF inputs.st # "ok"
                       THEN [st |-> inputs.st, inputs |-> <<>>, outputs |-> <<>>, rest |-> <<>>]
                       ELSE ParseBodyOutputs(inputs)))

\* Tx.parse_legacy: [st, tx].
parse_legacy(stream_) ==
    LET version == little_endian_to_int(Take(stream_, 4))
    IN  With(ParseBody(Drop(stream_, 4)),
             LAMBDA body :
               IF body.st # "ok" THEN [st |-> body.st, tx |-> <<>>]
               ELSE [st |-> "ok",
                     tx |-> Tx(version, body.inputs, body.outputs,
                               little_endian_to_int(Take(body.rest, 4)), FALSE, FALSE)])

\* The items of one input's witness: an item of length 0 is kept as the
\* integer 0, any other as its bytes.
RECURSIVE ParseItems(_, _, _)
ParseItems(s, n, acc) ==
    IF n = 0 THEN [st |-> "ok", items |-> acc, rest |-> s]
    ELSE With(read_varint(s),
              LAMBDA item_len :
                IF item_len.st # "ok" THEN [st |-> item_len.st, items |-> acc, rest |-> s]
                ELSE IF item_len.val = 0
                THEN ParseItems(item_len.rest, n - 1, Append(acc, Op(0)))
                ELSE ParseItems(Drop(item_len.rest, item_len.val), n - 1,
                                Append(acc, Push(Take(item_len.rest, item_len.val)))))

\* for tx_in in inputs: ... tx_in.witness = items
RECURSIVE ParseWitnesses(_, _, _)
ParseWitnesses(s, inputs, k) ==
    IF k > Len(inputs) THEN [st |-> "ok", items |-> inputs, rest |-> s]
    ELSE With(read_varint(s),
              LAMBDA num_items :
                IF num_items.st # "ok" THEN [st |-> num_items.st, items |-> inputs, rest |-> s]
                ELSE With(ParseItems(num_items.rest, num_items.val, <<>>),
                          LAMBDA items :
                            IF items.st # "ok"
                            THEN [st |-> items.st, items |-> inputs, rest |-> s]
                            ELSE ParseWitnesses(items.rest,
                                                [inputs EXCEPT ![k].has_witness = TRUE,
                                                               ![k].witness = items.items],
                                                k + 1)))

\* The witnesses and the locktime of parse_segwit, after the outputs.
ParseSegwitTail(version, body) ==
    With(ParseWitnesses(body.rest, body.inputs, 1),
         LAMBDA wit :
           IF wit.st # "ok" THEN [st |-> wit.st, tx |-> <<>>]
           ELSE [st |-> "ok",
                 tx |-> Tx(version, wit.items, body.outputs,
                           little_endian_to_int(Take(wit.rest, 4)), FALSE, TRUE)])

\* Tx.parse_segwit: [st, tx].
parse_segwit(s) ==
    LET version == little_endian_to_int(Take(s, 4))
        marker_and_flag == Take(Drop(s, 4), 2)
    IN  IF marker_and_flag # <<0, 1>> THEN [st |-> "RuntimeError", tx |-> <<>>]
        ELSE With(ParseBody(Drop(s, 6)),
                  LAMBDA body :
                    IF body.st # "ok" THEN [st |-> body.st, tx |-> <<>>]
                    ELSE ParseSegwitTail(version, body))

\* Tx.parse: the byte after the version decides the parser.
Tx_parse(s) ==
    IF Take(Drop(s, 4), 1) = <<0>> THEN parse_segwit(s) ELSE parse_legacy(s)

\* One witness item as serialize_segwit writes it: [st, bytes].
ItemSerialize(item) ==
    IF IsInt(item) THEN int_to_little_endian(item.op, 1)
    ELSE Ok(encode_varint(Len(item.data)) \o item.data)

\* Tx.serialize_segwit: [st, bytes]; len(tx_in.witness) raises on an input
\* that was never given a witness.
serialize_segwit(t) ==
    LET inputs == Join([i \in 1..Len(t.tx_inputs) |-> TxIn_serialize(t.tx_inputs[i])])
        outputs == Join([i \in 1..Len(t.tx_outputs) |-> TxOut_serialize(t.tx_outputs[i])])
        wits == Join([i \in 1..Len(t.tx_inputs) |->
                  IF ~t.tx_inputs[i].has_witness
                  THEN [st |-> "AttributeError", bytes |-> <<>>]
                  ELSE Join(<<int_to_little_endian(Len(t.tx_inputs[i].witness), 1)>>
                            \o [k \in 1..Len(t.tx_inputs[i].witness) |->
                                   ItemSerialize(t.tx_inputs[i].witness[k])])])
    IN  Join(<<int_to_little_endian(t.version, 4), Ok(<<0, 1>>),
               Ok(encode_varint(Len(t.tx_inputs))), inputs,
               Ok(encode_varint(Len(t.tx_outputs))), outputs,
               wits,
               int_to_little_endian(t.locktime, 4)>>)

\* Tx.serialize.
Tx_serialize(t) == IF t.segwit THEN serialize_segwit(t) ELSE serialize_legacy(t)

(***************************************************************************)
(* A transaction the caller built is serialized, the bytes are parsed, and *)
(* the parsed transaction is serialized again.  stream holds the bytes of  *)
(* the first serialization, parse_out what Tx.parse returned ([st, tx]),   *)
(* ser_out the latest serialization.                                       *)
(***************************************************************************)
\* tx.serialize() on the built transaction.
TxSerializeCall ==
    /\ tx_phase = "built"
    /\ \E r \in {Tx_serialize(tx)} :
          /\ ser_out' = r
          /\ stream' = IF r.st = "ok" THEN r.bytes ELSE <<>>
    /\ tx_phase' = "serialized"
    /\ UNCHANGED <<phase, self_cmds, parse_out, evalVars, tx, cache, outcome, numVars, restVars>>

\* Tx.parse(BytesIO(raw)) on the bytes of the first serialization.
TxParseCall ==
    /\ tx_phase = "serialized"
    /\ ser_out.st = "ok"
    /\ \E r \in {Tx_parse(stream)} : parse_out' = r
    /\ tx_phase' = "parsed"
    /\ UNCHANGED <<phase, stream, self_cmds, ser_out, evalVars, tx, cache, outcome, numVars, restVars>>

\* serialize() on the transaction Tx.parse returned.
TxReserializeCall ==
    /\ tx_phase = "parsed"
    /\ parse_out.st = "ok"
    /\ \E r \in {Tx_serialize(parse_out.tx)} : ser_out' = r
    /\ tx_phase' = "reserialized"
    /\ UNCHANGED <<phase, stream, self_cmds, parse_out, evalVars, tx, cache, outcome, numVars, restVars>>

\* A transaction id that reads differently backwards.
WireId == [i \in 1..32 |-> i]

TxWireInputs ==
    {TxIn(WireId, 1, SomeScript(<<Op(81), Push(<<97>>)>>), 65534),
     TxIn(WireId, 258, SomeScript(<<>>), 0),
     TxIn(PrevId, 0, NoScript, 65534),
     TxIn(PrevId, 0, SomeScript(<<Push(<<>>)>>), 3)}
TxWireOutputs ==
    {TxOut(1, <<Op(81)>>), TxOut(300, <<Op(118), Push(<<2, 7>>)>>), TxOut(0, <<>>)}

InitTxWire ==
    /\ CodecIdle(<<>>)
    /\ EvalIdle
    /\ NumIdle
    /\ RestIdle
    /\ \E ins \in SeqsUpTo(TxWireInputs, MaxInputs), outs \in SeqsUpTo(TxWireOutputs, MaxOutputs),
          version \in {1, 2}, locktime \in {0, 410393} :
          tx = Tx(version, ins, outs, locktime, FALSE, FALSE)
    /\ cache = <<>>
    /\ tx_phase = "built"
    /\ outcome = <<>>
NextTxWire == TxSerializeCall \/ TxParseCall \/ TxReserializeCall
SpecTxWire == InitTxWire /\ [][NextTxWire]_vars

\* The fields Tx.parse reads back, of a transaction and of its inputs.
InputFields(tx_in) ==
    <<tx_in.prev_tx, tx_in.prev_index, tx_in.script_sig, tx_in.sequence>>
TxFields(t) ==
    <<t.version, [i \in 1..Len(t.tx_inputs) |-> InputFields(t.tx_inputs[i])],
      t.tx_outputs, t.locktime>>

\* C29: the serialization of a legacy transaction parses; the parsed
\* transaction has the version, the inputs (previous transaction id,
\* previous index, unlocking script, sequence), the outputs (amount, locking
\* script) and the locktime of the serialized one, in order, and serializes
\* to the same bytes again, for any number of inputs and outputs.
C29_TxRoundTrip ==
    /\ tx_phase = "parsed" =>
         /\ parse_out.st = "ok"
         /\ TxFields(parse_out.tx) = TxFields(tx)
    /\ tx_phase = "reserialized" =>
         /\ ser_out.st = "ok"
         /\ ser_out.bytes = stream

(***************************************************************************)
(* SpecTamper: a transaction whose inputs sign_input has signed, one       *)
(* change the caller then makes to it (a signature, the hash type byte     *)
(* after a signature, a public key, an output amount), and the calls       *)
(* verify_input and verify made before or after the change.  The change is *)
(* logged in `outcome`.                                                    *)
(***************************************************************************)
\* The previous transaction: output 0 is locked by OP_CHECKSIG alone, output
\* 1 by OP_DUP OP_HASH160 <hash of key 7> OP_EQUAL OP_VERIFY OP_CHECKSIG.
TamperPrevOutputs ==
    <<TxOut(3, <<Op(172)>>),
      TxOut(3, <<Op(118), Op(169), Push(hash160(Sec(7))), Op(135), Op(105), Op(172)>>)>>
TamperPrevTx == Tx(1, <<>>, TamperPrevOutputs, 0, FALSE, FALSE)

\* The transaction after sign_input(i - 1, PrivateKey(7)) on each input from
\* i on.
RECURSIVE SignFrom(_, _, _)
SignFrom(t, c, i) ==
    IF i > Len(t.tx_inputs) THEN t
    ELSE SignFrom(sign_input(t, c, i, 7).tx, c, i + 1)

TamperOutputs == {TxOut(1, <<Op(81)>>), TxOut(2, <<Op(81)>>)}

InitTamper ==
    /\ CodecIdle(<<>>)
    /\ EvalIdle
    /\ NumIdle
    /\ RestIdle
    /\ cache = [id \in {PrevId} |-> TamperPrevTx]
    /\ \E ins \in SeqsUpTo({Spend(0, NoScript), Spend(1, NoScript)}, MaxInputs) \ {<<>>},
          outs \in SeqsUpTo(TamperOutputs, MaxOutputs) :
          tx = SignFrom(Tx(1, ins, outs, 0, FALSE, FALSE), cache, 1)
    /\ tx_phase = "signed"
    /\ outcome = <<>>

Tampered == \E n \in 1..Len(outcome) : outcome[n].op = "tamper"

\* tx.tx_inputs[i].script_sig.cmds[0] = <the signature, one DER byte changed>
TamperSignature ==
    /\ tx_phase = "signed"
    /\ ~Tampered
    /\ \E i \in 1..Len(tx.tx_inputs) :
          LET sig == tx.tx_inputs[i].script_sig.cmds[1].data
              changed == [sig EXCEPT ![2] = (sig[2] + 1) % 256]
          IN  /\ tx' = [tx EXCEPT !.tx_inputs[i].script_sig.cmds[1] = Push(changed)]
              /\ outcome' = Append(outcome, Outcome("tamper", i, 0, "signature", 0))
    /\ UNCHANGED <<codecVars, evalVars, cache, tx_phase, numVars, restVars>>

\* tx.tx_inputs[i].script_sig.cmds[0] = <the signature, hash type byte changed>
TamperHashType ==
    /\ tx_phase = "signed"
    /\ ~Tampered
    /\ \E i \in 1..Len(tx.tx_inputs) :
          LET sig == tx.tx_inputs[i].script_sig.cmds[1].data
              changed == [sig EXCEPT ![Len(sig)] = 3]
          IN  /\ tx' = [tx EXCEPT !.tx_inputs[i].script_sig.cmds[1] = Push(changed)]
              /\ outcome' = Append(outcome, Outcome("tamper", i, 0, "hash type", 0))
    /\ UNCHANGED <<codecVars, evalVars, cache, tx_phase, numVars, restVars>>

\* tx.tx_inputs[i].script_sig.cmds[1] = PrivateKey(9).point.sec()
TamperKey ==
    /\ tx_phase = "signed"
    /\ ~Tampered
    /\ \E i \in 1..Len(tx.tx_inputs) :
          /\ tx' = [tx EXCEPT !.tx_inputs[i].script_sig.cmds[2] = Push(Sec(9))]
          /\ outcome' = Append(outcome, Outcome("tamper", i, 0, "public key", 0))
    /\ UNCHANGED <<codecVars, evalVars, cache, tx_phase, numVars, restVars>>

\* tx.tx_outputs[j].amount += 1
TamperAmount ==
    /\ tx_phase = "signed"
    /\ ~Tampered
    /\ \E j \in 1..Len(tx.tx_outputs) :
          /\ tx' = [tx EXCEPT !.tx_outputs[j].amount = @ + 1]
          /\ outcome' = Append(outcome, Outcome("tamper", 0, j, "amount", 0))
    /\ UNCHANGED <<codecVars, evalVars, cache, tx_phase, numVars, restVars>>

NextTamper ==
    \/ TamperSignature
    \/ TamperHashType
    \/ TamperKey
    \/ TamperAmount
    \/ VerifyInputCall
    \/ VerifyCall
SpecTamper == InitTamper /\ [][NextTamper]_vars

\* The change made to the transaction touches input i: it is a change of the
\* signature or of the public key of input i, or of an output amount.
Affects(i) ==
    \E n \in 1..Len(outcome) :
        /\ outcome[n].op = "tamper"
        /\ outcome[n].r \in {"signature", "public key", "amount"}
        /\ outcome[n].input_index \in {0, i}

LastOutcome == outcome'[Len(outcome')]

\* Before any change every input verifies; after a change of input i's
\* signature or public key, or of an output amount, verify_input of input i
\* returns false.
C30_VerifyInputPart ==
    [][Called("verify_input") =>
          /\ ~Tampered => LastOutcome.r = "True"
          /\ Affects(LastOutcome.input_index) => LastOutcome.r = "False"]_vars

\* C30: for a transaction whose inputs all verify, after the signature or
\* the public key of an input, or an output amount, is changed, verify_input
\* of the affected input returns false and verify returns false.
C30_TamperDetected ==
    /\ C30_VerifyInputPart
    /\ [][(Called("verify") /\ \E i \in 1..Len(tx.tx_inputs) : Affects(i)) =>
              LastOutcome.r = "False"]_vars

(***************************************************************************)
(* The splice of OP_IF / OP_NOTIF, stated on positions of the stream that  *)
(* follows the opcode (under SpecOps).                                     *)
(***************************************************************************)
\* The position of the OP_ENDIF that closes the opcode.
MatchingEndif(cs) ==
    CHOOSE k \in 1..Len(cs) :
        /\ cs[k].op = 104
        /\ CountOps(cs, k - 1, {99, 100}) = CountOps(cs, k - 1, {104})
        /\ \A j \in 1..(k - 1) :
              ~(cs[j].op = 104 /\ CountOps(cs, j - 1, {99, 100}) = CountOps(cs, j - 1, {104}))

\* The positions before the matching OP_ENDIF that hold an OP_ELSE of the
\* opcode's own level.
OwnElses(cs) ==
    {j \in 1..(MatchingEndif(cs) - 1) :
        /\ cs[j].op = 103
        /\ CountOps(cs, j - 1, {99, 100}) = CountOps(cs, j - 1, {104})}

\* The commands of cs at the positions of P, in their order.
RECURSIVE AtPositions(_, _, _)
AtPositions(cs, P, i) ==
    IF i > Len(cs) THEN <<>>
    ELSE (IF i \in P THEN <<cs[i]>> ELSE <<>>) \o AtPositions(cs, P, i + 1)

\* The branch chosen: the commands before the first OP_ELSE of the opcode's
\* level (first = TRUE), or those after it, up to the matching OP_ENDIF.
ChosenBranch(cs, first) ==
    LET k == MatchingEndif(cs)
        elses == OwnElses(cs)
        e == IF elses = {} THEN k ELSE CHOOSE j \in elses : \A i \in elses : j <= i
    IN  IF first THEN AtPositions(cs, 1..(e - 1), 1)
        ELSE AtPositions(cs, ((e + 1)..(k - 1)) \ elses, 1)

AfterEndif(cs) == SubSeq(cs, MatchingEndif(cs) + 1, Len(cs))

\* C31: when OP_IF or OP_NOTIF succeeds, exactly one element was popped and
\* the stream afterwards is the chosen branch followed by the commands that
\* came after the matching OP_ENDIF, in their order (the OP_ENDIF, the
\* OP_ELSE of the opcode's level and the other branch are gone); when it fails
\* because there is no matching OP_ENDIF, the stack is as it was.
C31_IfSplicesChosenBranch ==
    [][(Dispatches(99) \/ Dispatches(100)) =>
         LET cs == Tail(cmds)
         IN  /\ last' = "True" =>
                  /\ HasMatchingEndif(cs)
                  /\ stack' = Pop(stack)
                  /\ cmds' = ChosenBranch(cs, FirstBranch(decode_num(Top(stack)), cmds[1].op))
                                \o AfterEndif(cs)
             /\ ~HasMatchingEndif(cs) =>
                  /\ last' = "False"
                  /\ stack' = stack]_vars

\* <0> OP_IF OP_1 OP_ELSE OP_ENDIF OP_1: the 0 was popped, the empty second
\* branch chosen, and the OP_1 after the OP_ENDIF is what remains.
C31_Witness ==
    /\ self_cmds = <<Push(<<>>), Op(99), Op(81), Op(103), Op(104), Op(81)>>
    /\ last = "True"
    /\ stack = <<>>
    /\ cmds = <<Op(81)>>

(***************************************************************************)
(* src/tx.py: Tx.hash, Tx.id and TxFetcher.fetch.                          *)
(* A text is a sequence of characters: 0..15 are the hexadecimal digits,   *)
(* NewLine is "\n", and NotHex is a character that is neither.  An object  *)
(* fetch returned is held by the caller as [key, tx, flag, shared]: tx is  *)
(* the object as it is now, flag the testnet argument of the call that     *)
(* returned it, shared whether it still is the object the cache holds      *)
(* under key.  fetch is followed in two steps: the call up to the request  *)
(* it sends (or to its return, when the cache answers), and the rest of    *)
(* the call once the server has answered.                                  *)
(***************************************************************************)
NewLine == 17
NotHex == 16

\* bytes.hex()
RECURSIVE Hex(_)
Hex(b) == IF b = <<>> THEN <<>> ELSE <<b[1] \div 16, b[1] % 16>> \o Hex(Tail(b))

\* str.strip() on a text whose only whitespace is NewLine.
RECURSIVE Strip(_)
Strip(t) ==
    IF t = <<>> THEN t
    ELSE IF t[1] = NewLine THEN Strip(Tail(t))
    ELSE IF t[Len(t)] = NewLine THEN Strip(SubSeq(t, 1, Len(t) - 1))
    ELSE t

\* bytes.fromhex read over t[lo..hi], by halves: [v0, v1, c], where v0 (v1)
\* says that the part is accepted when it is entered between two pairs
\* (after the first digit of a pair), and c is the number of its digits.
\* Whitespace is skipped between pairs only, and a digit is one of 0..15.
RECURSIVE HexScan(_, _, _)
HexScan(t, lo, hi) ==
    IF lo > hi THEN [v0 |-> TRUE, v1 |-> TRUE, c |-> 0]
    ELSE IF lo = hi
    THEN IF t[lo] = NewLine THEN [v0 |-> TRUE, v1 |-> FALSE, c |-> 0]
         ELSE [v0 |-> t[lo] <= 15, v1 |-> t[lo] <= 15, c |-> 1]
    ELSE With(<<HexScan(t, lo, (lo + hi) \div 2), HexScan(t, (lo + hi) \div 2 + 1, hi)>>,
              LAMBDA p :
                [v0 |-> p[1].v0 /\ (IF p[1].c % 2 = 0 THEN p[2].v0 ELSE p[2].v1),
                 v1 |-> p[1].v1 /\ (IF p[1].c % 2 = 0 THEN p[2].v1 ELSE p[2].v0),
                 c |-> p[1].c + p[2].c])

\* bytes.fromhex(t): [st, bytes].
FromHex(t) ==
    With(With(t, LAMBDA v : <<HexScan(v, 1, Len(v)), SelectSeq(v, LAMBDA x : x # NewLine)>>),
         LAMBDA p :
           IF ~p[1].v0 \/ p[1].c % 2 = 1 THEN [st |-> "ValueError", bytes |-> <<>>]
           ELSE [st |-> "ok",
                 bytes |-> [i \in 1..(p[1].c \div 2) |-> 16 * p[2][2 * i - 1] + p[2][2 * i]]])

\* Tx.hash: [st, val].
Tx_hash(t) ==
    With(Tx_serialize(t),
         LAMBDA raw : IF raw.st # "ok" THEN [st |-> raw.st, val |-> <<>>]
                      ELSE [st |-> "ok", val |-> Reverse(hash256(raw.bytes))])

\* Tx.id: [st, val].
Tx_id(t) ==
    With(Tx_hash(t),
         LAMBDA h : IF h.st # "ok" THEN h ELSE [st |-> "ok", val |-> Hex(h.val)])

\* The part of TxFetcher.fetch that asks the server, given the text of the
\* response: [st, tx].
FetchFresh(tx_id, testnet, text) ==
    With(FromHex(Strip(text)),
         LAMBDA raw :
           IF raw.st # "ok" THEN [st |-> raw.st, tx |-> <<>>]
           ELSE With(Tx_parse(raw.bytes),
                     LAMBDA parsed :
                       IF parsed.st # "ok" THEN parsed
                       ELSE With(Tx_id(parsed.tx),
                                 LAMBDA id :
                                   IF id.st # "ok" THEN [st |-> id.st, tx |-> <<>>]
                                   ELSE IF id.val # tx_id
                                   THEN [st |-> "RuntimeError", tx |-> <<>>]
                                   ELSE [st |-> "ok",
                                         tx |-> [parsed.tx EXCEPT !.testnet = testnet]])))

\* c with the transaction t stored under key k.
Store(c, k, t) == [x \in DOMAIN c \cup {k} |-> IF x = k THEN t ELSE c[x]]

MaxFetches == 2     \* most calls of fetch

\* The transactions the server knows: two legacy ones, and a segwit one.
ServerTxs ==
    {Tx(1, <<TxIn(WireId, 1, SomeScript(<<Op(81)>>), 65534)>>, <<TxOut(1, <<Op(81)>>)>>, 0,
        FALSE, FALSE),
     Tx(1, <<TxIn(WireId, 0, SomeScript(<<>>), 65534)>>, <<TxOut(2, <<Op(81)>>)>>, 0,
        FALSE, FALSE),
     Tx(2, <<WithItems(TxIn(WireId, 2, SomeScript(<<>>), 65534),
                       <<Push(<<48, 8, 1>>), Push(Sec(7))>>)>>,
        <<TxOut(1, <<Op(0), Push(hash160(Sec(7)))>>)>>, 0, FALSE, TRUE)}

\* The id of a transaction as the network defines it: over the serialization
\* without the marker, the flag and the witness data.
TxidOf(t) == Hex(Reverse(hash256(serialize_legacy(t).bytes)))

\* The ids asked for: the transactions' ids, and what Tx.id gives for them.
RequestIds == {TxidOf(t) : t \in ServerTxs} \cup {Tx_id(t).val : t \in ServerTxs}

\* What the server answers: the hexadecimal serialization of a transaction
\* and a newline, the same with a newline after the first byte, or a text
\* that is no hexadecimal serialization.
Responses ==
    {Append(Hex(Tx_serialize(t).bytes), NewLine) : t \in ServerTxs}
        \cup {<<0, 1, NewLine>> \o Drop(Hex(Tx_serialize(t).bytes), 2) :
                 t \in {u \in ServerTxs : u.version = 1 /\ u.tx_outputs[1].amount = 1}}
        \cup {<<>>, <<NotHex>>, <<0>>, <<0, NewLine, 0>>}

\* The objects the caller holds once the cache entry of key was replaced
\* (replaced) or had its flag set to testnet.
Held(h, key, replaced, testnet) ==
    [n \in 1..Len(h) |->
       IF h[n].key # key \/ ~h[n].shared THEN h[n]
       ELSE IF replaced THEN [h[n] EXCEPT !.shared = FALSE]
       ELSE [h[n] EXCEPT !.tx.testnet = testnet]]

\* TxFetcher.fetch(tx_id, testnet, fresh) up to requests.get, or to its
\* return when it does not ask the server.
FetchCall ==
    /\ tx_phase = "fetching"
    /\ asked = <<>>
    /\ Len(outcome) < MaxFetches
    /\ \E tx_id \in RequestIds, testnet \in BOOLEAN, fresh \in BOOLEAN :
          IF fresh \/ tx_id \notin DOMAIN cache
          THEN /\ asked' = <<[tx_id |-> tx_id, testnet |-> testnet, fresh |-> fresh]>>
               /\ UNCHANGED <<outcome, cache, held>>
          ELSE \E got \in {[cache[tx_id] EXCEPT !.testnet = testnet]} :
                 /\ outcome' = Append(outcome,
                                      Outcome("fetch", 0,
                                              [tx_id |-> tx_id, testnet |-> testnet,
                                               fresh |-> fresh, text |-> <<>>], "ok", 0))
                 /\ cache' = Store(cache, tx_id, got)
                 /\ held' = Append(Held(held, tx_id, FALSE, testnet),
                                   [key |-> tx_id, tx |-> got, flag |-> testnet,
                                    shared |-> TRUE])
                 /\ UNCHANGED asked
    /\ UNCHANGED <<codecVars, evalVars, tx, tx_phase, numVars, moreVars>>

\* The rest of the fetch call that asked, the server answering with text.
FetchAnswer ==
    /\ asked # <<>>
    /\ \E text \in Responses :
          LET tx_id == asked[1].tx_id
              testnet == asked[1].testnet
              call == [tx_id |-> tx_id, testnet |-> testnet, fresh |-> asked[1].fresh,
                       text |-> text]
          IN  \E got \in {FetchFresh(tx_id, testnet, text)} :
                 IF got.st # "ok"
                 THEN /\ outcome' = Append(outcome, Outcome("fetch", 0, call, got.st, 0))
                      /\ UNCHANGED <<cache, held>>
                 ELSE /\ outcome' = Append(outcome, Outcome("fetch", 0, call, "ok", 0))
                      /\ cache' = Store(cache, tx_id, got.tx)
                      /\ held' = Append(Held(held, tx_id, TRUE, testnet),
                                        [key |-> tx_id, tx |-> got.tx, flag |-> testnet,
                                         shared |-> TRUE])
    /\ asked' = <<>>
    /\ UNCHANGED <<codecVars, evalVars, tx, tx_phase, numVars, moreVars>>

\* The loop of TxFetcher.load_cache over the entries (k, raw_hex) of the
\* file: [st, cache, h]; an entry that does not parse raises with the
\* entries before it stored.
RECURSIVE LoadLoop(_, _, _)
LoadLoop(c, h, disk_cache) ==
    IF disk_cache = <<>> THEN [st |-> "ok", cache |-> c, h |-> h]
    ELSE With(FromHex(disk_cache[1].raw_hex),
              LAMBDA raw :
                IF raw.st # "ok" THEN [st |-> raw.st, cache |-> c, h |-> h]
                ELSE With(Tx_parse(raw.bytes),
                          LAMBDA parsed :
                            IF parsed.st # "ok" THEN [st |-> parsed.st, cache |-> c, h |-> h]
                            ELSE LoadLoop(Store(c, disk_cache[1].k, parsed.tx),
                                          Held(h, disk_cache[1].k, TRUE, FALSE),
                                          Tail(disk_cache))))

\* The files load_cache is given: one entry, or an entry that parses and
\* one that does not, under keys that are ids of the server's transactions.
DiskEntries ==
    {[k |-> k, raw_hex |-> raw_hex] :
        k \in {TxidOf(t) : t \in ServerTxs},
        raw_hex \in {Hex(Tx_serialize(t).bytes) : t \in ServerTxs} \cup {<<NotHex>>}}
DiskCaches ==
    {<<e>> : e \in DiskEntries}
        \cup {p \in {<<e, f>> : e \in {d \in DiskEntries : d.raw_hex # <<NotHex>>},
                                  f \in {d \in DiskEntries : d.raw_hex = <<NotHex>>}} :
                 p[1].k # p[2].k}

\* TxFetcher.load_cache(filename), the file holding disk_cache.
LoadCacheCall ==
    /\ tx_phase = "fetching"
    /\ asked = <<>>
    /\ Len(outcome) < MaxFetches
    /\ \E disk_cache \in DiskCaches :
          \E got \in {LoadLoop(cache, held, disk_cache)} :
             /\ outcome' = Append(outcome, Outcome("load_cache", 0, disk_cache, got.st, 0))
             /\ cache' = got.cache
             /\ held' = got.h
    /\ UNCHANGED <<codecVars, evalVars, tx, tx_phase, numVars, moreVars, asked>>

InitFetch ==
    /\ CodecIdle(<<>>)
    /\ EvalIdle
    /\ NumIdle
    /\ tx = <<>>
    /\ cache = <<>>
    /\ tx_phase = "fetching"
    /\ outcome = <<>>
    /\ FetchIdle
    /\ MoreIdle
NextFetch == FetchCall \/ FetchAnswer \/ LoadCacheCall
SpecFetch == InitFetch /\ [][NextFetch]_vars

\* The text an honest server answers when asked for tx_id: the serialization
\* of the transaction that has this id.
HonestText(tx_id) ==
    {Append(Hex(Tx_serialize(t).bytes), NewLine) : t \in {u \in ServerTxs : TxidOf(u) = tx_id}}

\* Every call so far was a call of fetch.
OnlyFetched == \A m \in 1..Len(outcome) : outcome[m].op = "fetch"

\* C32: the id of a transaction is computed over its legacy serialization
\* whether or not it carries witness data: every transaction returned by a
\* sequence of fetch calls was stored under the id of its serialization
\* without witness data, and a fetch that is answered with the
\* serialization of the transaction asked for, a segwit one included,
\* passes the id check.
C32_IdIgnoresWitness ==
    /\ OnlyFetched => \A n \in 1..Len(held) : held[n].key = TxidOf(held[n].tx)
    /\ \A n \in 1..Len(outcome) :
          (/\ outcome[n].op = "fetch"
           /\ outcome[n].key.text \in HonestText(outcome[n].key.tx_id)) => outcome[n].r = "ok"

\* After fetch calls only, every cache entry is stored under its own id,
\* and every object fetch returned still has the network flag it was
\* returned with.
C38_Entries ==
    OnlyFetched =>
        /\ \A k \in DOMAIN cache : Tx_id(cache[k]).val = k
        /\ \A n \in 1..Len(held) : held[n].tx.testnet = held[n].flag

\* A fetch that raises leaves the cache as it was.
C38_FailedFetch ==
    (Called("fetch") /\ outcome'[Len(outcome')].r # "ok") => cache' = cache

\* C38: after any sequence of fetch calls every cache entry stored under key
\* k is a transaction whose id is k; a fetch whose transaction has another id
\* than the one asked for raises and leaves the cache unchanged; and an
\* object an earlier fetch returned keeps the network flag it was returned
\* with when the same id is fetched for the other network.
C38_CacheKeysAndFlags == []C38_Entries /\ [][C38_FailedFetch]_vars

(***************************************************************************)
(* src/tx.py: Tx.is_coinbase and Tx.coinbase_height.                       *)
(* A previous index is a 32-bit value; the integers of the model are       *)
(* signed 32-bit, so 0xffffffff is held as NoIndex.                        *)
(***************************************************************************)
\* b'\x00' * 32
ZeroId == [i \in 1..32 |-> 0]

is_coinbase(t) ==
    /\ Len(t.tx_inputs) = 1
    /\ t.tx_inputs[1].prev_tx = ZeroId
    /\ t.tx_inputs[1].prev_index = NoIndex

\* Tx.coinbase_height: [r, val]; r is "None" when None is returned, "ok"
\* with the height in val, or the exception raised.  `self.is_coinbase` is
\* the bound method, not a call of it: `not self.is_coinbase` is False for
\* every transaction.
coinbase_height(t) ==
    IF FALSE THEN [r |-> "None", val |-> 0]
    ELSE IF t.tx_inputs = <<>> THEN [r |-> "IndexError", val |-> 0]
    ELSE IF ~t.tx_inputs[1].script_sig.present THEN [r |-> "AttributeError", val |-> 0]
    ELSE LET script_sig == t.tx_inputs[1].script_sig.cmds
         IN  IF script_sig = <<>> THEN [r |-> "IndexError", val |-> 0]
             ELSE IF IsInt(script_sig[1]) THEN [r |-> "TypeError", val |-> 0]
             ELSE [r |-> "ok", val |-> little_endian_to_int(script_sig[1].data)]

IsCoinbaseCall ==
    /\ tx_phase = "built"
    /\ outcome' = Append(outcome, Outcome("is_coinbase", 0, 0,
                                          IF is_coinbase(tx) THEN "True" ELSE "False", 0))
    /\ tx_phase' = "asked"
    /\ UNCHANGED <<codecVars, evalVars, tx, cache, numVars, restVars>>

CoinbaseHeightCall ==
    /\ tx_phase = "built"
    /\ \E h \in {coinbase_height(tx)} :
          outcome' = Append(outcome, Outcome("coinbase_height", 0, 0, h.r, h.val))
    /\ tx_phase' = "height"
    /\ UNCHANGED <<codecVars, evalVars, tx, cache, numVars, restVars>>

\* Inputs with and without the previous id and index of a coinbase input,
\* and unlocking scripts that start with a height, with an opcode, or with
\* nothing.
CoinbaseInputs ==
    {TxIn(id, index, script_sig, 65534) :
        id \in {ZeroId, WireId}, index \in {NoIndex, 0},
        script_sig \in {NoScript, SomeScript(<<>>), SomeScript(<<Op(81)>>),
                        SomeScript(<<Push(<<1, 2>>), Op(81)>>), SomeScript(<<Push(<<>>)>>)}}

InitCoinbase ==
    /\ CodecIdle(<<>>)
    /\ EvalIdle
    /\ NumIdle
    /\ RestIdle
    /\ \E ins \in SeqsUpTo(CoinbaseInputs, MaxInputs) :
          tx = Tx(1, ins, <<TxOut(5, <<Op(81)>>)>>, 0, FALSE, FALSE)
    /\ cache = <<>>
    /\ tx_phase = "built"
    /\ outcome = <<>>
NextCoinbase == IsCoinbaseCall \/ CoinbaseHeightCall
SpecCoinbase == InitCoinbase /\ [][NextCoinbase]_vars

\* C33: coinbase_height returns None for every transaction that is not a
\* coinbase transaction (exactly one input, with an all-zero previous id and
\* previous index 0xffffffff); for a coinbase transaction whose unlocking
\* script starts with an element it returns that element read as a
\* little-endian integer.
C33_HeightOnlyForCoinbase ==
    tx_phase = "height" =>
        /\ ~is_coinbase(tx) => outcome[1].r = "None"
        /\ (/\ is_coinbase(tx)
            /\ tx.tx_inputs[1].script_sig.present
            /\ tx.tx_inputs[1].script_sig.cmds # <<>>
            /\ IsBytes(tx.tx_inputs[1].script_sig.cmds[1])) =>
              /\ outcome[1].r = "ok"
              /\ outcome[1].val = little_endian_to_int(tx.tx_inputs[1].script_sig.cmds[1].data)

(***************************************************************************)
(* SpecRedeem: verify_input on inputs that spend pay-to-script-hash        *)
(* outputs with redeem script elements of 1 to 520 bytes.                  *)
(***************************************************************************)
Zeros(n) == [i \in 1..n |-> 0]
\* OP_PUSHBYTES_75 and its 75 bytes.
Chunk == <<75>> \o Zeros(75)

\* Redeem script elements, by size: OP_1; a direct push (3 bytes); pushes
\* that make elements of 252, 253 and 255 bytes; an element of 253 bytes
\* whose first two bytes read as the length 228 when its length byte is
\* taken for a varint marker; and pushes that make elements of 256 and 520
\* bytes.
RedeemElementsBySize ==
    <<<<81>>,
      <<2, 7, 7>>,
      <<76, 250>> \o Zeros(250),
      <<76, 251>> \o Chunk \o Chunk \o Chunk \o <<22>> \o Zeros(22),
      <<228, 0>> \o Chunk \o Chunk \o Chunk \o <<22>> \o Zeros(22),
      <<76, 253>> \o Zeros(6) \o Chunk \o Chunk \o Chunk \o <<18>> \o Zeros(18),
      <<77, 253, 0>> \o Zeros(253),
      <<77, 5, 2>> \o Zeros(517)>>

RedeemPrevTx ==
    Tx(1, <<>>,
       [i \in 1..Len(RedeemElementsBySize) |->
           TxOut(2, <<Op(169), Push(hash160(RedeemElementsBySize[i])), Op(135)>>)],
       0, FALSE, FALSE)

\* The input that spends output i - 1 with its redeem script element.
RedeemInputs ==
    {TxIn(PrevId, i - 1, SomeScript(<<Push(RedeemElementsBySize[i])>>), 65534) :
        i \in 1..Len(RedeemElementsBySize)}

InitRedeem ==
    /\ CodecIdle(<<>>)
    /\ EvalIdle
    /\ NumIdle
    /\ RestIdle
    /\ \E ins \in SeqsUpTo(RedeemInputs, MaxInputs) \ {<<>>}, outs \in OutputLists :
          tx = Tx(1, ins, outs, 0, FALSE, FALSE)
    /\ cache = [id \in {PrevId} |-> RedeemPrevTx]
    /\ tx_phase = "built"
    /\ outcome = <<>>
NextRedeem == VerifyInputCall
SpecRedeem == InitRedeem /\ [][NextRedeem]_vars

\* The redeem script verify_input parses for the sighash: [st, cmds].
ClassifiedRedeem(cmd) ==
    LET length == int_to_little_endian(Len(cmd), 1)
    IN  IF length.st # "ok" THEN [st |-> length.st, cmds |-> <<>>]
        ELSE ScriptParse(length.bytes \o cmd)

\* The redeem script the P2SH rule of evaluate parses and runs: [st, cmds].
ExecutedRedeem(cmd) == ScriptParse(encode_varint(Len(cmd)) \o cmd)

\* The redeem script element of the input a verify_input call was about.
VerifiedElement ==
    LET script_sig == tx.tx_inputs[outcome[1].input_index].script_sig.cmds
    IN  script_sig[Len(script_sig)].data

\* C39: for every redeem script element of 1 to 520 bytes, verify_input
\* parses the last element of the unlocking script into the command sequence
\* the P2SH rule of evaluate obtains from it, elements of 253 bytes or more
\* included, and so does not fail where the rule would not.
C39_SameRedeemScript ==
    (tx_phase = "input verified" /\ Len(VerifiedElement) \in 1..520) =>
        /\ ClassifiedRedeem(VerifiedElement) = ExecutedRedeem(VerifiedElement)
        /\ ExecutedRedeem(VerifiedElement).st = "ok" =>
              outcome[1].r \notin {"OverflowError", "IndexError", "SyntaxError"}

(***************************************************************************)
(* Merkle roots: helper.merkle_parent, merkle_parent_level, merkle_root    *)
(* and Block.validate_merkle_root.                                         *)
(***************************************************************************)

\* helper.merkle_parent.
merkle_parent(hash_a, hash_b) == hash256(hash_a \o hash_b)

\* helper.merkle_parent_level: the list of the parents of each pair, the last
\* hash paired with itself when the list is odd.
merkle_parent_level(hashes) ==
    LET padded == IF Len(hashes) % 2 = 1 THEN Append(hashes, hashes[Len(hashes)])
                  ELSE hashes
    IN  [i \in 1..(Len(padded) \div 2) |-> merkle_parent(padded[2 * i - 1], padded[2 * i])]

\* helper.merkle_root: the list left when no more than one hash remains.
RECURSIVE merkle_root(_)
merkle_root(hashes) ==
    IF Len(hashes) > 1 THEN merkle_root(merkle_parent_level(hashes)) ELSE hashes

\* The Merkle root of a list of hashes: the one hash left by the levels.
RootOf(hashes) ==
    LET RECURSIVE Levels(_)
        Levels(hs) == IF Len(hs) > 1 THEN Levels(merkle_parent_level(hs)) ELSE hs
    IN  IF hashes = <<>> THEN <<>> ELSE Levels(hashes)[1]

\* Python values of the two types the comparison of validate_merkle_root
\* meets, and Python's == on them: values of different types are unequal.
BytesValue(b) == [type |-> "bytes", val |-> b]
ListValue(l) == [type |-> "list", val |-> l]
PyEq(a, b) == a.type = b.type /\ a.val = b.val

\* The fields of a Block that validate_merkle_root reads; tx_hashes is
\* [present, items], not present standing for None.
Block(header_root, tx_hashes) == [merkle_root |-> header_root, tx_hashes |-> tx_hashes]
NoHashes == [present |-> FALSE, items |-> <<>>]
SomeHashes(hs) == [present |-> TRUE, items |-> hs]

\* Block.validate_merkle_root: "True", "False" or the exception raised.
validate_merkle_root(b) ==
    IF ~b.tx_hashes.present THEN "TypeError"
    ELSE LET hashes == [i \in 1..Len(b.tx_hashes.items) |-> Reverse(b.tx_hashes.items[i])]
             calculated_merkle == ListValue(Reverse(merkle_root(hashes)))
         IN  IF PyEq(BytesValue(b.merkle_root), calculated_merkle) THEN "True" ELSE "False"

ValidateMerkleRootCall ==
    /\ tx_phase = "block built"
    /\ tx_phase' = "root validated"
    /\ outcome' = <<Outcome("validate_merkle_root", 0, 0, validate_merkle_root(block), 0)>>
    /\ UNCHANGED <<codecVars, evalVars, tx, cache, numVars, fetchVars, block, treeVars, netVars>>

MaxHashes == 3      \* most transaction hashes of the block

\* Transaction hashes, and the Merkle root of a list of them as a block
\* header carries it.
TxHash(k) == [i \in 1..32 |-> (k + i) % 256]
TxHashes == {TxHash(k) : k \in 1..3}
HeaderRoot(hs) ==
    LET rev == [i \in 1..Len(hs) |-> Reverse(hs[i])]
    IN  Reverse(RootOf(rev))

InitBlock ==
    /\ CodecIdle(<<>>)
    /\ EvalIdle
    /\ NumIdle
    /\ FetchIdle
    /\ TreeIdle
    /\ NetIdle
    /\ tx = <<>>
    /\ cache = <<>>
    /\ \E hs \in SeqsUpTo(TxHashes, MaxHashes) :
          \E root \in {HeaderRoot(hs), TxHash(1), ZeroId} :
             \E tx_hashes \in {SomeHashes(hs), NoHashes} :
                block = Block(root, tx_hashes)
    /\ tx_phase = "block built"
    /\ outcome = <<>>
NextBlock == ValidateMerkleRootCall
SpecBlock == InitBlock /\ [][NextBlock]_vars

\* C34: validate_merkle_root returns True exactly when the header's merkle
\* root equals the Merkle root of the block's transaction hashes (each
\* reversed, paired level by level, the last hash duplicated on odd levels,
\* the result reversed) and False otherwise; so it returns True for a block
\* whose single transaction hash is the header's merkle root.
C34_MerkleRootValidated ==
    (/\ tx_phase = "root validated"
     /\ block.tx_hashes.present
     /\ block.tx_hashes.items # <<>>) =>
        /\ outcome[1].r \in {"True", "False"}
        /\ outcome[1].r = "True" <=> block.merkle_root = HeaderRoot(block.tx_hashes.items)
        /\ block.tx_hashes.items = <<block.merkle_root>> => outcome[1].r = "True"

(***************************************************************************)
(* MerkleTree: the tree of a Merkle proof and populate_tree.               *)
(***************************************************************************)

\* A node of the tree: None, or a hash.
None == [present |-> FALSE, val |-> <<>>]
Some(h) == [present |-> TRUE, val |-> h]

\* n.bit_length() for n >= 0.
RECURSIVE BitLength(_)
BitLength(n) == IF n <= 0 THEN 0 ELSE 1 + BitLength(n \div 2)

RECURSIVE IsPowerOfTwo(_)
IsPowerOfTwo(n) == n = 1 \/ (n > 1 /\ n % 2 = 0 /\ IsPowerOfTwo(n \div 2))

\* The exponents k below 32 for which the double math.log(2^k, 2), the
\* quotient of two rounded natural logarithms, lies above k
\* (29.000000000000004 and 31.000000000000004).
FloatLogAbove == {29, 31}

\* math.ceil(math.log(total, 2)) for 1 <= total < 2^32, the totals a
\* merkleblock message carries in its four bytes (math.log raises ValueError
\* for total = 0).  The double the logarithm returns lies on the same side of
\* every integer as the exact logarithm, whose ceiling is the bit length of
\* total - 1, but for the powers of two in FloatLogAbove, where the ceiling
\* is one more than the exponent.
CeilLog2(total) ==
    BitLength(total - 1)
      + (IF IsPowerOfTwo(total) /\ BitLength(total - 1) \in FloatLogAbove THEN 1 ELSE 0)

\* math.ceil(a / b).
CeilDiv(a, b) == (a + b - 1) \div b

\* MerkleTree.__init__; nodes[depth + 1][index + 1] is the node the code
\* keeps at nodes[depth][index].
MerkleTree(total) ==
    LET max_depth == CeilLog2(total)
    IN  [total |-> total,
         max_depth |-> max_depth,
         nodes |-> [d \in 1..(max_depth + 1) |->
                       [i \in 1..CeilDiv(total, 2 ^ (max_depth - (d - 1))) |-> None]],
         current_depth |-> 0,
         current_index |-> 0]

up(t) == [t EXCEPT !.current_depth = @ - 1, !.current_index = @ \div 2]
left(t) == [t EXCEPT !.current_depth = @ + 1, !.current_index = @ * 2]
right(t) == [t EXCEPT !.current_depth = @ + 1, !.current_index = @ * 2 + 1]
root(t) == t.nodes[1][1]
set_current_node(t, entry) ==
    [t EXCEPT !.nodes[t.current_depth + 1][t.current_index + 1] = entry]
get_left_node(t) == t.nodes[t.current_depth + 2][t.current_index * 2 + 1]
get_right_node(t) == t.nodes[t.current_depth + 2][t.current_index * 2 + 2]
is_leaf(t) == t.current_depth = t.max_depth
right_exists(t) == Len(t.nodes[t.current_depth + 2]) > t.current_index * 2 + 1

\* populate_tree without the check of the flag bits left.
PopulateChecks_IgnoresFlags(s) ==
    IF Len(s.hashes) # 0 THEN [s EXCEPT !.st = "RuntimeError"] ELSE s

\* The checks of populate_tree after its loop.
PopulateChecks(s) ==
    IF Len(s.hashes) # 0 THEN [s EXCEPT !.st = "RuntimeError"]
    ELSE IF \E i \in 1..Len(s.flag_bits) : s.flag_bits[i] # 0
    THEN [s EXCEPT !.st = "RuntimeError"]
    ELSE s

\* One pass of the loop of populate_tree from s = [st, tree, flag_bits,
\* hashes]; st becomes "IndexError" when a pop finds its list empty.
PopulateStep(s) ==
    LET t == s.tree
    IN  IF is_leaf(t)
        THEN IF s.flag_bits = <<>> THEN [s EXCEPT !.st = "IndexError"]
             ELSE IF s.hashes = <<>>
             THEN [s EXCEPT !.st = "IndexError", !.flag_bits = Tail(@)]
             ELSE [s EXCEPT !.flag_bits = Tail(@), !.hashes = Tail(@),
                            !.tree = up(set_current_node(t, Some(Head(s.hashes))))]
        ELSE LET left_hash == get_left_node(t)
             IN  IF ~left_hash.present
                 THEN IF s.flag_bits = <<>> THEN [s EXCEPT !.st = "IndexError"]
                      ELSE IF Head(s.flag_bits) = 0
                      THEN IF s.hashes = <<>>
                           THEN [s EXCEPT !.st = "IndexError", !.flag_bits = Tail(@)]
                           ELSE [s EXCEPT !.flag_bits = Tail(@), !.hashes = Tail(@),
                                          !.tree = up(set_current_node(t, Some(Head(s.hashes))))]
                      ELSE [s EXCEPT !.flag_bits = Tail(@), !.tree = left(t)]
                 ELSE IF right_exists(t)
                 THEN LET right_hash == get_right_node(t)
                      IN  IF ~right_hash.present THEN [s EXCEPT !.tree = right(t)]
                          ELSE [s EXCEPT !.tree = up(set_current_node(t,
                                    Some(merkle_parent(left_hash.val, right_hash.val))))]
                 ELSE [s EXCEPT !.tree = up(set_current_node(t,
                           Some(merkle_parent(left_hash.val, left_hash.val))))]

\* populate_tree from s on: [st, tree, flag_bits, hashes], st "ok" or the
\* exception raised, with the tree and the two lists as the call leaves them.
RECURSIVE PopulateLoop(_)
PopulateLoop(s) ==
    IF s.st # "ok" THEN s
    ELSE IF root(s.tree).present THEN PopulateChecks(s)
    ELSE With(PopulateStep(s), LAMBDA n : PopulateLoop(n))

\* MerkleTree.populate_tree.
populate_tree(t, flag_bits, hashes) ==
    PopulateLoop([st |-> "ok", tree |-> t, flag_bits |-> flag_bits, hashes |-> hashes])

PopulateTreeCall ==
    /\ tx_phase = "tree built"
    /\ \E p \in {populate_tree(tree, lists.flag_bits, lists.hashes)} :
          /\ tree' = p.tree
          /\ lists' = [flag_bits |-> p.flag_bits, hashes |-> p.hashes]
          /\ outcome' = <<Outcome("populate_tree", 0, lists, p.st, 0)>>
    /\ tx_phase' = "populated"
    /\ UNCHANGED <<codecVars, evalVars, tx, cache, numVars, fetchVars, block, netVars>>

MaxTotal == 4       \* most leaves of the tree
MaxFlags == 8       \* most flag bits of the proof

\* The leaves of the block, and the proofs: any flag bits, and the first
\* leaves (one more than the tree has, at most).
Leaves == [k \in 1..(MaxTotal + 1) |-> TxHash(k)]
InitTree ==
    /\ CodecIdle(<<>>)
    /\ EvalIdle
    /\ NumIdle
    /\ FetchIdle
    /\ BlockIdle
    /\ NetIdle
    /\ tx = <<>>
    /\ cache = <<>>
    /\ \E total \in 1..MaxTotal, flag_bits \in SeqsUpTo({0, 1}, MaxFlags),
          n \in 0..(MaxTotal + 1) :
          /\ tree = MerkleTree(total)
          /\ lists = [flag_bits |-> flag_bits, hashes |-> SubSeq(Leaves, 1, n)]
    /\ tx_phase = "tree built"
    /\ outcome = <<>>
NextTree == PopulateTreeCall
SpecTree == InitTree /\ [][NextTree]_vars

\* The nodes of a tree of `total` leaves below and including the node at
\* (depth, index), in the order populate_tree first visits them: TRUE for
\* an internal node, FALSE for a leaf.
RECURSIVE Preorder(_, _, _)
Preorder(total, depth, index) ==
    LET max_depth == CeilLog2(total)
        width == CeilDiv(total, 2 ^ (max_depth - (depth + 1)))
    IN  IF depth = max_depth THEN <<FALSE>>
        ELSE <<TRUE>> \o Preorder(total, depth + 1, 2 * index)
                      \o (IF 2 * index + 1 < width
                          THEN Preorder(total, depth + 1, 2 * index + 1) ELSE <<>>)

\* A proof that supplies all the leaves of the tree in order, with one flag
\* bit per node and every internal node flagged for computation.
IsFullProof(total, flag_bits, hs) ==
    /\ hs = SubSeq(Leaves, 1, total)
    /\ Len(flag_bits) = Len(Preorder(total, 0, 0))
    /\ \A i \in 1..Len(flag_bits) : Preorder(total, 0, 0)[i] => flag_bits[i] = 1

\* The arguments of the populate_tree call.
PopulateArgs == outcome[1].key

\* C35: for a proof with all the leaves in order and every internal node
\* flagged, populate_tree ends with every hash consumed and the root equal
\* to the Merkle root of the leaves; and whenever the root is set while a
\* hash is left or a remaining flag bit is 1, it raises an error.
C35_FullProofRoot ==
    tx_phase = "populated" =>
        /\ IsFullProof(tree.total, PopulateArgs.flag_bits, PopulateArgs.hashes) =>
              /\ outcome[1].r = "ok"
              /\ lists.hashes = <<>>
              /\ root(tree) = Some(RootOf(PopulateArgs.hashes))
        /\ (/\ root(tree).present
            /\ \/ lists.hashes # <<>>
               \/ \E i \in 1..Len(lists.flag_bits) : lists.flag_bits[i] = 1) =>
              outcome[1].r = "RuntimeError"

\* A full proof of a tree with an odd level has been accepted.
C35_Witness ==
    /\ tx_phase = "populated"
    /\ tree.total = 3
    /\ IsFullProof(3, PopulateArgs.flag_bits, PopulateArgs.hashes)
    /\ outcome[1].r = "ok"
    /\ root(tree) = Some(RootOf(SubSeq(Leaves, 1, 3)))

(***************************************************************************)
(* src/network.py: NetworkEnvelope, the messages, and SimpleNode.          *)
(***************************************************************************)
NETWORK_MAGIC == <<249, 190, 180, 217>>
TESTNET_NETWORK_MAGIC == <<11, 17, 9, 7>>

\* The command of each message class (ASCII).
VersionCommand == <<118, 101, 114, 115, 105, 111, 110>>
VerAckCommand == <<118, 101, 114, 97, 99, 107>>
PingCommand == <<112, 105, 110, 103>>
PongCommand == <<112, 111, 110, 103>>

\* NetworkEnvelope.__init__.
NetworkEnvelope(command, payload, testnet) ==
    [command |-> command, payload |-> payload,
     magic |-> IF testnet THEN TESTNET_NETWORK_MAGIC ELSE NETWORK_MAGIC]

\* NetworkEnvelope.serialize.
NetworkEnvelope_serialize(e) ==
    e.magic \o e.command \o [i \in 1..(12 - Len(e.command)) |-> 0]
            \o int_to_little_endian(Len(e.payload), 4).bytes
            \o Take(hash256(e.payload), 4)
            \o e.payload

\* bytes.strip(b'\x00'): the zero bytes at both ends removed.
RECURSIVE StripZeros(_)
StripZeros(b) ==
    IF b = <<>> THEN b
    ELSE IF b[1] = 0 THEN StripZeros(Tail(b))
    ELSE IF b[Len(b)] = 0 THEN StripZeros(SubSeq(b, 1, Len(b) - 1))
    ELSE b

\* NetworkEnvelope.parse on a stream that holds the bytes s, the connection
\* closed or not: [st, envelope, rest].  st is "ok", the exception raised,
\* or "blocked" when a read has to wait for bytes the peer has not sent;
\* rest is what the stream still holds.
NetworkEnvelope_parse(s, closed, testnet) ==
    LET none == NetworkEnvelope(<<>>, <<>>, testnet)
        expected_magic == IF testnet THEN TESTNET_NETWORK_MAGIC ELSE NETWORK_MAGIC
        magic == Take(s, 4)
        command == StripZeros(Take(Drop(s, 4), 12))
        payload_length == little_endian_to_int(Take(Drop(s, 16), 4))
        payload_checksum == Take(Drop(s, 20), 4)
        payload == Take(Drop(s, 24), payload_length)
    IN  IF Len(s) < 4 /\ ~closed THEN [st |-> "blocked", envelope |-> none, rest |-> s]
        ELSE IF magic = <<>> THEN [st |-> "IOError", envelope |-> none, rest |-> s]
        ELSE IF expected_magic # magic
        THEN [st |-> "SyntaxError", envelope |-> none, rest |-> Drop(s, 4)]
        ELSE IF Len(s) < 24 /\ ~closed THEN [st |-> "blocked", envelope |-> none, rest |-> s]
        ELSE IF Len(s) < 24 + payload_length /\ ~closed
        THEN [st |-> "blocked", envelope |-> none, rest |-> s]
        ELSE IF payload_checksum # Take(hash256(payload), 4)
        THEN [st |-> "IOError", envelope |-> none, rest |-> Drop(s, 24 + payload_length)]
        ELSE [st |-> "ok", envelope |-> NetworkEnvelope(command, payload, testnet),
              rest |-> Drop(s, 24 + payload_length)]

\* Python's truth value of the relay field: a bool, or the bytes parse read.
BoolValue(b) == [type |-> "bool", val |-> b]
Truthy(v) == IF v.type = "bool" THEN v.val ELSE v.val # <<>>

\* VersionMessage.__init__ with every field given.
VersionMessage(version, services, timestamp, receiver_services, receiver_ip, receiver_port, sender_services, sender_ip, sender_port, nonce, user_agent, latest_block, relay) ==
    [command |-> VersionCommand, version |-> version, services |-> services,
     timestamp |-> timestamp, receiver_services |-> receiver_services,
     receiver_ip |-> receiver_ip, receiver_port |-> receiver_port,
     sender_services |-> sender_services, sender_ip |-> sender_ip,
     sender_port |-> sender_port, nonce |-> nonce, user_agent |-> user_agent,
     latest_block |-> latest_block, relay |-> relay]

\* b'programmingbitcoin:0.1'
UserAgent ==
    <<112, 114, 111, 103, 114, 97, 109, 109, 105, 110, 103, 98, 105, 116, 99,
      111, 105, 110, 58, 48, 46, 49>>

\* VersionMessage() at the time `now`, randint having returned r = [over,
\* bytes]: over when r is 2**64, else its 8 little-endian bytes.  [st, msg].
DefaultVersionMessage(now, r) ==
    IF r.over THEN [st |-> "OverflowError", msg |-> <<>>]
    ELSE [st |-> "ok",
          msg |-> VersionMessage(70015, 0, now, 0, <<0, 0, 0, 0>>, 8333, 0,
                                 <<0, 0, 0, 0>>, 8333, r.bytes, UserAgent, 0,
                                 BoolValue(FALSE))]

\* VersionMessage.serialize: [st, bytes].
VersionMessage_serialize(m) ==
    Join(<<int_to_little_endian(m.version, 4),
           int_to_little_endian(m.services, 8),
           int_to_little_endian(m.timestamp, 8),
           int_to_little_endian(m.receiver_services, 8),
           Ok([i \in 1..10 |-> 0] \o <<255, 255>> \o m.receiver_ip),
           int_to_little_endian(m.receiver_port, 2),
           int_to_little_endian(m.sender_services, 8),
           Ok([i \in 1..10 |-> 0] \o <<255, 255>> \o m.sender_ip),
           int_to_little_endian(m.sender_port, 2),
           Ok(m.nonce),
           Ok(encode_varint(Len(m.user_agent))),
           Ok(m.user_agent),
           int_to_little_endian(m.latest_block, 4),
           Ok(IF Truthy(m.relay) THEN <<1>> ELSE <<0>>)>>)

\* VersionMessage.parse of the payload s: [st, msg].  The two addresses are
\* read as 12 bytes each.
VersionMessage_parse(s) ==
    LET version == little_endian_to_int(Take(s, 4))
        services == little_endian_to_int(Take(Drop(s, 4), 8))
        timestamp == little_endian_to_int(Take(Drop(s, 12), 8))
        receiver_services == little_endian_to_int(Take(Drop(s, 20), 8))
        receiver_ip == Take(Drop(s, 28), 12)
        receiver_port == little_endian_to_int(Take(Drop(s, 40), 2))
        sender_services == little_endian_to_int(Take(Drop(s, 42), 8))
        sender_ip == Take(Drop(s, 50), 12)
        sender_port == little_endian_to_int(Take(Drop(s, 62), 2))
        nonce == Take(Drop(s, 64), 8)
        user_agent_length == read_varint(Drop(s, 72))
        after == user_agent_length.rest
        user_agent == Take(after, user_agent_length.val)
        latest_block == little_endian_to_int(Take(Drop(after, user_agent_length.val), 4))
        relay == Take(Drop(after, user_agent_length.val + 4), 1)
    IN  IF user_agent_length.st # "ok" THEN [st |-> user_agent_length.st, msg |-> <<>>]
        ELSE [st |-> "ok",
              msg |-> VersionMessage(version, services, timestamp, receiver_services,
                                     receiver_ip, receiver_port, sender_services,
                                     sender_ip, sender_port, nonce, user_agent,
                                     latest_block, BytesValue(relay))]

\* VerAckMessage, PingMessage and PongMessage, with serialize and parse.
VerAckMessage == [command |-> VerAckCommand]
PingMessage(nonce) == [command |-> PingCommand, nonce |-> nonce]
PongMessage(nonce) == [command |-> PongCommand, nonce |-> nonce]
Message_serialize(m) ==
    IF m.command = VersionCommand THEN VersionMessage_serialize(m)
    ELSE IF m.command = VerAckCommand THEN Ok(<<>>)
    ELSE Ok(m.nonce)

\* The classmethod parse of the message class with the command c: [st, msg].
Message_parse(c, s) ==
    IF c = VersionCommand THEN VersionMessage_parse(s)
    ELSE IF c = VerAckCommand THEN [st |-> "ok", msg |-> VerAckMessage]
    ELSE IF c = PingCommand THEN [st |-> "ok", msg |-> PingMessage(Take(s, 8))]
    ELSE [st |-> "ok", msg |-> PongMessage(Take(s, 8))]

\* One entry of net_log: the node read an envelope ("read") or sent one
\* ("send"), with its command and payload.
Ev(kind, command, payload) == [kind |-> kind, command |-> command, payload |-> payload]

\* The bytes SimpleNode.send hands to socket.sendall for the message m:
\* [st, bytes].
SimpleNode_send(m, testnet) ==
    LET payload == Message_serialize(m)
    IN  [st |-> payload.st,
         bytes |-> NetworkEnvelope_serialize(NetworkEnvelope(m.command, payload.bytes,
                                                             testnet))]

\* wait_for answering a ping with a pong that does not carry its payload.
Reply_EmptyPong(envelope) ==
    IF envelope.command = VersionCommand THEN <<VerAckMessage>>
    ELSE IF envelope.command = PingCommand THEN <<PongMessage(<<>>)>>
    ELSE <<>>

\* The messages wait_for sends in answer to the envelope it read.
Reply(envelope) ==
    IF envelope.command = VersionCommand THEN <<VerAckMessage>>
    ELSE IF envelope.command = PingCommand THEN <<PongMessage(envelope.payload)>>
    ELSE <<>>

\* No result yet; the result of a call that returned m; an exception.
NoResult == [st |-> "none", msg |-> <<>>]
Raised(exc) == [st |-> exc, msg |-> <<>>]

\* SimpleNode.wait_for(*message_classes) is called; wanted holds the
\* commands of the classes.  The call then reads envelopes (WaitForStep).
WaitForCall ==
    /\ node.pc = "idle"
    /\ \E wanted \in {{VerAckCommand}, {PingCommand}, {VersionCommand, VerAckCommand}} :
          node' = [node EXCEPT !.pc = "waiting", !.call = "wait_for", !.wanted = wanted]
    /\ UNCHANGED <<codecVars, evalVars, txVars, numVars, fetchVars, blockVars, treeVars,
                   wire_in, eof, wire_out, net_log, peer_sent>>

\* SimpleNode.handshake up to its first read: the version message is built
\* (int(time.time()) and randint(0, 2**64) are the inputs) and sent, and
\* wait_for(VerAckMessage) starts.
HandshakeCall ==
    /\ node.pc = "idle"
    /\ \E r \in {[over |-> FALSE, bytes |-> <<1, 2, 3, 4, 5, 6, 7, 8>>],
                 [over |-> TRUE, bytes |-> <<>>]} :
          \E v \in {DefaultVersionMessage(1700000000, r)} :
             IF v.st # "ok"
             THEN /\ node' = [node EXCEPT !.pc = "raised", !.call = "handshake",
                                          !.result = Raised(v.st)]
                  /\ UNCHANGED <<wire_out, net_log>>
             ELSE \E sent \in {SimpleNode_send(v.msg, node.testnet)} :
                    IF sent.st # "ok"
                    THEN /\ node' = [node EXCEPT !.pc = "raised", !.call = "handshake",
                                                 !.result = Raised(sent.st)]
                         /\ UNCHANGED <<wire_out, net_log>>
                    ELSE /\ node' = [node EXCEPT !.pc = "waiting", !.call = "handshake",
                                                 !.wanted = {VerAckCommand}]
                         /\ wire_out' = Append(wire_out, sent.bytes)
                         /\ net_log' = Append(net_log,
                                              Ev("send", v.msg.command,
                                                 Message_serialize(v.msg).bytes))
    /\ UNCHANGED <<codecVars, evalVars, txVars, numVars, fetchVars, blockVars, treeVars,
                   wire_in, eof, peer_sent>>

\* One pass of the loop of wait_for: read blocks until the stream holds an
\* envelope (or the connection is closed), the envelope is answered, and the
\* call returns the parsed message when the command is a wanted one;
\* handshake returns None when its wait_for returns.
WaitForStep ==
    /\ node.pc = "waiting"
    /\ \E p \in {NetworkEnvelope_parse(wire_in, eof, node.testnet)} :
          /\ p.st # "blocked"
          /\ wire_in' = p.rest
          /\ IF p.st # "ok"
             THEN /\ node' = [node EXCEPT !.pc = "raised", !.result = Raised(p.st)]
                  /\ UNCHANGED <<wire_out, net_log>>
             ELSE \E replies \in {Reply(p.envelope)} :
                    /\ wire_out' = wire_out \o
                           [i \in 1..Len(replies) |->
                              SimpleNode_send(replies[i], node.testnet).bytes]
                    /\ net_log' = Append(net_log,
                                         Ev("read", p.envelope.command, p.envelope.payload))
                           \o [i \in 1..Len(replies) |->
                                  Ev("send", replies[i].command,
                                     Message_serialize(replies[i]).bytes)]
                    /\ IF p.envelope.command \in node.wanted
                       THEN \E m \in {Message_parse(p.envelope.command, p.envelope.payload)} :
                              node' = [node EXCEPT
                                         !.pc = IF m.st = "ok" THEN "returned" ELSE "raised",
                                         !.result = IF m.st = "ok" /\ node.call = "handshake"
                                                    THEN [st |-> "ok", msg |-> <<>>] ELSE m]
                       ELSE UNCHANGED node
    /\ UNCHANGED <<codecVars, evalVars, txVars, numVars, fetchVars, blockVars, treeVars,
                   eof, peer_sent>>

MaxPeerMsgs == 3    \* most envelopes the peer sends

\* What the peer may send: a version, a verack, a ping, an inv, a version
\* with an empty payload, a verack with a wrong checksum, and a verack of
\* the other network.
PeerVersion ==
    VersionMessage(70015, 1, 1700000000, 0, <<0, 0, 0, 0>>, 8333, 0, <<0, 0, 0, 0>>,
                   8333, <<8, 7, 6, 5, 4, 3, 2, 1>>, <<>>, 5, BoolValue(TRUE))
PeerEnvelopes(testnet) ==
    {NetworkEnvelope_serialize(NetworkEnvelope(m[1], m[2], testnet)) :
        m \in {<<VersionCommand, VersionMessage_serialize(PeerVersion).bytes>>,
               <<VerAckCommand, <<>>>>,
               <<PingCommand, <<9, 8, 7, 6, 5, 4, 3, 2>>>>,
               <<<<105, 110, 118>>, <<0>>>>,
               <<VersionCommand, <<>>>>}}
    \cup {[NetworkEnvelope_serialize(NetworkEnvelope(VerAckCommand, <<>>, testnet))
              EXCEPT ![21] = (@ + 1) % 256],
          NetworkEnvelope_serialize(NetworkEnvelope(VerAckCommand, <<>>, ~testnet))}

PeerSend ==
    /\ node # <<>>
    /\ ~eof
    /\ Len(peer_sent) < MaxPeerMsgs
    /\ \E b \in PeerEnvelopes(node.testnet) :
          /\ wire_in' = wire_in \o b
          /\ peer_sent' = Append(peer_sent, b)
    /\ UNCHANGED <<codecVars, evalVars, txVars, numVars, fetchVars, blockVars, treeVars,
                   node, eof, wire_out, net_log>>

PeerClose ==
    /\ node # <<>>
    /\ ~eof
    /\ eof' = TRUE
    /\ UNCHANGED <<codecVars, evalVars, txVars, numVars, fetchVars, blockVars, treeVars,
                   node, wire_in, wire_out, net_log, peer_sent>>

InitNode ==
    /\ CodecIdle(<<>>)
    /\ EvalIdle
    /\ TxIdle
    /\ NumIdle
    /\ FetchIdle
    /\ BlockIdle
    /\ TreeIdle
    /\ \E testnet \in BOOLEAN :
          node = [testnet |-> testnet, pc |-> "idle", call |-> "none", wanted |-> {},
                  result |-> NoResult]
    /\ wire_in = <<>>
    /\ eof = FALSE
    /\ wire_out = <<>>
    /\ net_log = <<>>
    /\ peer_sent = <<>>
NextNode == WaitForCall \/ HandshakeCall \/ WaitForStep \/ PeerSend \/ PeerClose
SpecNode == InitNode /\ [][NextNode]_vars

\* The envelopes the node read and the ones it sent, in order.
Reads == SelectSeq(net_log, LAMBDA e : e.kind = "read")
Sends == SelectSeq(net_log, LAMBDA e : e.kind = "send")

\* The bytes of the envelope of a log entry.
EvBytes(e) == NetworkEnvelope_serialize(NetworkEnvelope(e.command, e.payload, node.testnet))

\* The log entry at i is the version message handshake sends first.
IsOwnVersion(i) == i = 1 /\ node.call = "handshake"

\* C36: wait_for reads the envelopes in arrival order and returns the first
\* whose command is one of the requested classes'; every version read is
\* answered with a verack and every ping with a pong carrying its payload,
\* the answer sent before the next envelope is read; an envelope of any
\* other command is skipped without an answer.
C36_WaitForReplies ==
    /\ \A k \in 1..Len(Reads) : EvBytes(Reads[k]) = peer_sent[k]
    /\ \A i \in 1..Len(net_log) :
          LET e == net_log[i]
          IN  /\ (e.kind = "read" /\ e.command = VersionCommand) =>
                    i < Len(net_log) /\ net_log[i + 1] = Ev("send", VerAckCommand, <<>>)
              /\ (e.kind = "read" /\ e.command = PingCommand) =>
                    i < Len(net_log) /\ net_log[i + 1] = Ev("send", PongCommand, e.payload)
              /\ (e.kind = "read" /\ e.command \notin {VersionCommand, PingCommand}) =>
                    i = Len(net_log) \/ net_log[i + 1].kind = "read"
              /\ (e.kind = "send" /\ ~IsOwnVersion(i)) =>
                    i > 1 /\ net_log[i - 1].kind = "read"
    /\ Len(wire_out) = Len(Sends)
    /\ \A k \in 1..Len(Sends) : wire_out[k] = EvBytes(Sends[k])
    /\ \A k \in 1..Len(Reads) :
          Reads[k].command \in node.wanted => k = Len(Reads) /\ node.pc # "waiting"
    /\ node.pc = "returned" =>
          /\ Reads # <<>>
          /\ Reads[Len(Reads)].command \in node.wanted
          /\ node.call = "wait_for" =>
                node.result = Message_parse(Reads[Len(Reads)].command,
                                            Reads[Len(Reads)].payload)

\* wait_for(VerAckMessage) returned after it answered a ping and a version.
C36_Witness ==
    /\ node.call = "wait_for"
    /\ node.pc = "returned"
    /\ node.result.msg = VerAckMessage
    /\ net_log = <<Ev("read", PingCommand, <<9, 8, 7, 6, 5, 4, 3, 2>>),
                   Ev("send", PongCommand, <<9, 8, 7, 6, 5, 4, 3, 2>>),
                   Ev("read", VersionCommand, VersionMessage_serialize(PeerVersion).bytes),
                   Ev("send", VerAckCommand, <<>>),
                   Ev("read", VerAckCommand, <<>>)>>

\* C37: handshake sends its version message first and returns only after
\* both peers have exchanged their version: when it returns, the peer's
\* version has been read and answered with a verack and the peer's verack
\* has been read, whatever order the peer sent the two in.
C37_HandshakeExchangesVersions ==
    (node.call = "handshake" /\ node.pc \in {"waiting", "returned"}) =>
        /\ net_log # <<>>
        /\ net_log[1].kind = "send"
        /\ net_log[1].command = VersionCommand
        /\ node.pc = "returned" =>
              /\ \E i \in 1..(Len(net_log) - 1) :
                    /\ net_log[i].kind = "read"
                    /\ net_log[i].command = VersionCommand
                    /\ net_log[i + 1] = Ev("send", VerAckCommand, <<>>)
              /\ \E i \in 1..Len(net_log) :
                    net_log[i].kind = "read" /\ net_log[i].command = VerAckCommand

\* The part of C37 the code keeps: handshake sends its version first, and
\* when it returns the peer's verack has been read.
C37_ReturnsOnVerAck ==
    (node.call = "handshake" /\ node.pc \in {"waiting", "returned"}) =>
        /\ net_log # <<>>
        /\ net_log[1] = Ev("send", VersionCommand, Sends[1].payload)
        /\ node.pc = "returned" =>
              Reads # <<>> /\ Reads[Len(Reads)].command = VerAckCommand

====
